---- MODULE Spec2Model ----
(***************************************************************************)
(* MINI-RAG: authentication, invitation lifecycle and authorization.       *)
(*                                                                         *)
(* The storage collaborator is PostgreSQL (the alembic migrations use      *)
(* pgcrypto, citext and DO $$ blocks) at its default isolation level READ  *)
(* COMMITTED: a statement reads the rows committed when it starts, the     *)
(* writes of a transaction become visible to the others at its commit, an  *)
(* UPDATE of a row that another open transaction has updated waits for     *)
(* that transaction and then re-evaluates its WHERE clause on the new row  *)
(* version, and NOW() is the start time of the transaction.  Every `async  *)
(* with request.app.db_client() as session` block is one transaction,      *)
(* started by its first statement; leaving the block without commit rolls  *)
(* it back.  Handlers are interleaved at their `await` points.             *)
(*                                                                         *)
(* Time is a discrete clock counted in fractions of a second; the app's    *)
(* datetime.utcnow() and the database's NOW() read the same clock and are  *)
(* compared on one time line.  A nullable column holds {} for NULL and {v} *)
(* for the value v.                                                        *)
(***************************************************************************)
EXTENDS Integers, Sequences, FiniteSets, TLC

(* ------------------------------ bounds --------------------------------- *)
\* clock steps in a run
MaxTicks == 1
\* invite tokens ever generated
MaxInvites == 2
\* user ids ever allocated (the seeded super-admin included)
MaxUsers == 2
\* organization ids a request body may name (only org 1 exists)
MaxOrgs == 2

\* the concurrent request handlers (one database session each)
Sessions == {"s1", "s2"}
\* the one handler of the runs that take the requests one at a time
OnboardSessions == {"s1"}

\* clock steps in a second
TicksPerSecond == 2
Minute == 60 * TicksPerSecond
Hour == 60 * Minute

(* ------------------------- configuration ------------------------------- *)
JWT_SECRET == "1357912468abcdefghijklmnopqrstuvwxyzABCDEFGHIJKLMNOPQRSTUVWXYZ"
INVITE_TOKEN_HMAC_SECRET == "CHANGE_ME_LONG_RANDOM"
ACCESS_TTL_MIN == 15
INVITE_TTL_HOURS == 48
\* the attributes of Settings that the invite code asks for with hasattr
SettingsAttrs == {"JWT_SECRET", "JWT_ALG", "ACCESS_TTL_MIN", "REFRESH_TTL_DAYS",
                  "INVITE_TOKEN_HMAC_SECRET", "INVITE_TTL_HOURS"}
\* the Settings object when the environment overrides nothing
DefaultSettings ==
    [JWT_SECRET |-> JWT_SECRET, INVITE_TOKEN_HMAC_SECRET |-> INVITE_TOKEN_HMAC_SECRET,
     ACCESS_TTL_MIN |-> ACCESS_TTL_MIN, INVITE_TTL_HOURS |-> INVITE_TTL_HOURS]

NULL == {}
Some(v) == {v}
Val(c) == CHOOSE v \in c : TRUE

UserIds == 1..MaxUsers
InviteIds == 1..MaxInvites
BodyOrgIds == 1..MaxOrgs
Roles == {"ADMIN", "USER"}
\* the email of the seeded super-admin and one more
Emails == {"omar@example.com", "new@example.com"}
\* a password value that is too short for SetPasswordBody
ShortPasswords == {"short12"}
\* new_password values that pass the length validation of SetPasswordBody
Passwords == {"longenough1"}

VARIABLES
    now,            \* the wall clock (datetime.utcnow() and the database clock)
    users,          \* committed rows of users: user_id -> row
    memberships,    \* committed rows of user_memberships
    organizations,  \* committed org ids
    user_invites,   \* committed rows of user_invites: invite_id -> row
    seqs,           \* the sequences: next user_id, next invite_id, next raw token
    req,            \* per session: the handler running in it and its locals
    outbox,         \* raw tokens handed to the background email task
    hist,           \* history: successful redemptions per invite, last issuance per user
    projects,       \* committed rows of projects: project_id -> project_org_id
    az,             \* the authorization check last evaluated: principal, target, outcome
    org_metadata,   \* committed organizations.metadata: org_id -> value
    tokens,         \* the session tokens that login has returned
    settings,       \* get_settings(): the Settings object read from the environment
    answer_cache,   \* app.state.answer_cache: answer_id -> {project_id, answer, ts}
    cache_hist      \* history: every item the cache was given, and the last call on it

dbVars == <<users, memberships, organizations, user_invites>>
\* what the invite lifecycle changes, and what it leaves alone
lifeVars == <<now, users, memberships, organizations, user_invites, seqs, req, outbox, hist>>
auxVars == <<projects, az, org_metadata, tokens, settings, answer_cache, cache_hist>>
\* what a check of the decoded claims leaves alone
checkFrame == <<lifeVars, projects, org_metadata, tokens, settings, answer_cache, cache_hist>>
vars == <<now, users, memberships, organizations, user_invites, seqs, req, outbox, hist,
          projects, az, org_metadata, tokens, settings, answer_cache, cache_hist>>

(* ------------------------- pure helpers -------------------------------- *)
\* routes/auth.py _invite_secret: INVITE_TOKEN_HMAC_SECRET or JWT_SECRET
_invite_secret ==
    IF settings.INVITE_TOKEN_HMAC_SECRET # ""
    THEN settings.INVITE_TOKEN_HMAC_SECRET ELSE settings.JWT_SECRET

\* routes/auth.py _hash_token: HMAC-SHA256 keyed by the invite secret; the digest
\* is modelled as the pair (key, message), i.e. collision free
_hash_token(raw) == [key |-> _invite_secret, msg |-> raw]

\* routes/auth.py _invite_expires_at: utcnow() + timedelta(hours = ...)
_invite_expires_at(t) ==
    t + Hour * (IF "INVITE_TOKEN_TTL_HOURS" \in SettingsAttrs
                THEN settings.INVITE_TTL_HOURS ELSE settings.ACCESS_TTL_MIN)

\* mutant: the digest is of a scheme the password context does not know
hash_password_unknown_scheme(pw) == [alg |-> "plain", pw |-> pw]

\* utils/security.py hash_password: argon2 digest of the password
hash_password(pw) == [alg |-> "argon2", pw |-> pw]

\* the row the super-admin migration inserts
SeedUserRow ==
    [email |-> "omar@example.com",
     password_hash |-> Some([alg |-> "bcrypt", pw |-> "OmarEmara123"]),
     is_super_admin |-> TRUE, is_active |-> TRUE]

\* mutant: the row is inserted as a super-admin's
NewUserRowSuperAdmin(e) ==
    [email |-> e, password_hash |-> NULL, is_super_admin |-> TRUE, is_active |-> FALSE]

\* mutant: the row is inserted active
NewUserRowActive(e) ==
    [email |-> e, password_hash |-> NULL, is_super_admin |-> FALSE, is_active |-> TRUE]

\* INSERT INTO users (email, is_super_admin, is_active) VALUES (:e, FALSE, FALSE)
NewUserRow(e) ==
    [email |-> e, password_hash |-> NULL, is_super_admin |-> FALSE, is_active |-> FALSE]

\* the claims login embeds for user u (memberships as stored now)
ClaimsOf(u) ==
    [uid |-> u, is_super_admin |-> users[u].is_super_admin,
     orgs |-> {[org_id |-> m.org_id, role |-> m.role] : m \in {x \in memberships : x.user_id = u}}]

\* users able to hold a session token: active, with a password
Principals == {u \in DOMAIN users : users[u].is_active /\ users[u].password_hash # NULL}

(* invite states of section 3 *)
InvState(i) ==
    IF user_invites[i].used_at # NULL THEN "USED"
    ELSE IF user_invites[i].expires_at > now THEN "PENDING" ELSE "EXPIRED"

PendingOf(u, p) ==
    {i \in DOMAIN user_invites :
        /\ user_invites[i].user_id = u
        /\ user_invites[i].purpose = p
        /\ InvState(i) = "PENDING"}

(* ------------------------- sessions ------------------------------------ *)
Idle ==
    [op |-> "idle", pc |-> "idle", uid |-> 0, email |-> "none", org |-> 0,
     role |-> "none", cby |-> NULL, caller |-> 0,
     raw |-> 0, inv |-> 0, exp |-> 0, tnow |-> 0, pw |-> "none",
     rev |-> {}, revoked |-> FALSE, lk_inv |-> {}, lk_usr |-> 0,
     seen |-> {}, overlap |-> FALSE, superseded |-> FALSE, result |-> "none",
     body |-> << >>]

IssuanceOps == {"create_admin", "create_user", "resend_invite"}

\* mutant: the new invite is inserted before the open ones are revoked
IssuanceStepsInsertFirst == <<"insert", "revoke", "commit">>

\* the order of the statements of an issuance after its first one:
\* _revoke_open_invites, INSERT INTO user_invites, session.commit()
IssuanceSteps == <<"revoke", "insert", "commit">>

StepAfter(pc) ==
    LET k == CHOOSE j \in 1..Len(IssuanceSteps) : IssuanceSteps[j] = pc
    IN  IF k < Len(IssuanceSteps) THEN IssuanceSteps[k + 1] ELSE "done"

\* rows of user_invites / users that a transaction other than s has updated
InviteLockedByOther(s, i) == \E t \in Sessions \ {s} : i \in req[t].lk_inv
UserLockedByOther(s, u) == \E t \in Sessions \ {s} : req[t].lk_usr = u

\* mutant: the dependency of a super-admin route lets every principal through
require_super_admin_skipped(user) == TRUE

\* utils/deps.py require_super_admin
require_super_admin(user) == user.is_super_admin

\* mutant: a membership of any role at the organization is enough
create_user_allowed_any_role(user, org_id) ==
    IF ~user.is_super_admin
    THEN \E m \in user.orgs : m.org_id = org_id
    ELSE TRUE

\* routes/auth.py create_user: the inline check before the transaction
create_user_allowed(user, org_id) ==
    IF ~user.is_super_admin
    THEN \E m \in user.orgs : m.org_id = org_id /\ m.role = "ADMIN"
    ELSE TRUE

\* mutant: the comparison with NOW() is turned around
OpenInvitesInverted(uid, p, t) ==
    {i \in DOMAIN user_invites :
        /\ user_invites[i].user_id = uid
        /\ user_invites[i].purpose = p
        /\ user_invites[i].used_at = NULL
        /\ user_invites[i].expires_at < t}

\* mutant: the UPDATE does not look at the purpose
OpenInvitesAnyPurpose(uid, p, t) ==
    {i \in DOMAIN user_invites :
        /\ user_invites[i].user_id = uid
        /\ user_invites[i].used_at = NULL
        /\ user_invites[i].expires_at > t}

\* mutant: the UPDATE does not look at expires_at
OpenInvitesAnyExpiry(uid, p, t) ==
    {i \in DOMAIN user_invites :
        /\ user_invites[i].user_id = uid
        /\ user_invites[i].purpose = p
        /\ user_invites[i].used_at = NULL}

\* the WHERE clause of _revoke_open_invites, with NOW() = t
OpenInvites(uid, p, t) ==
    {i \in DOMAIN user_invites :
        /\ user_invites[i].user_id = uid
        /\ user_invites[i].purpose = p
        /\ user_invites[i].used_at = NULL
        /\ user_invites[i].expires_at > t}

\* setup_password / verify_setup_token: `inv.used_at is not None or
\* inv.expires_at < datetime.utcnow()` for a row that was found
TokenRejected(row, t) == row.used_at # NULL \/ row.expires_at < t

\* SELECT ... FROM user_invites WHERE token_hash=:th AND purpose='SET_PASSWORD'
find_invite_by_hash(th) ==
    {i \in DOMAIN user_invites :
        user_invites[i].token_hash = th /\ user_invites[i].purpose = "SET_PASSWORD"}

\* mutant: the account is activated and the password hash is not written
UsersAfterSetupNoHash(uid, ph) == [users EXCEPT ![uid].is_active = TRUE]

\* UPDATE users SET password_hash=:ph, is_active=TRUE WHERE user_id=:uid
UsersAfterSetup(uid, ph) ==
    [users EXCEPT ![uid].password_hash = Some(ph), ![uid].is_active = TRUE]

\* mutant: the invite is left unused
mark_invite_used_skipped(iid, t) == user_invites

\* UPDATE user_invites SET used_at=NOW() WHERE invite_id=:iid
mark_invite_used(iid, t) == [user_invites EXCEPT ![iid].used_at = Some(t)]

\* no authorization check has been recorded
NoCheck ==
    [user |-> {}, check |-> "none", target |-> 0, org |-> 0, level |-> "none",
     outcome |-> "none", touched |-> {},
     cred |-> {}, at |-> 0, input |-> << >>, detail |-> "none"]

\* the cache before _get_cache has created it is the empty dict, and nothing was called
NoCacheCalls ==
    [puts |-> << >>,
     call |-> [op |-> "none", answer_id |-> 0, returned |-> NULL, at |-> 0,
              before |-> << >>]]

\* the database after the migrations, no request in flight
InitLife ==
    /\ now = 0
    /\ users = (1 :> SeedUserRow)
    /\ memberships = {}
    /\ organizations = {1}
    /\ user_invites = << >>
    /\ seqs = [user_id |-> 2, user_id0 |-> 2, invite_id |-> 1, token |-> 1, org_id |-> 2]
    /\ req = [s \in Sessions |-> Idle]
    /\ outbox = {}
    /\ hist = [mail |-> {}, redeemed |-> [i \in InviteIds |-> 0],
               seen |-> [i \in InviteIds |-> {}],
               last |-> [u \in UserIds |-> [id |-> 0, overlap |-> FALSE]]]

\* no organization metadata, no session token, the default settings
InitAux ==
    /\ org_metadata = [o \in organizations |-> NULL]
    /\ tokens = {}
    /\ answer_cache = << >>
    /\ cache_hist = NoCacheCalls
    /\ settings = DefaultSettings

Init ==
    /\ InitLife
    /\ projects = << >>
    /\ az = NoCheck
    /\ InitAux

\* the clock advances, by an hour or to just past the lifetime of an invite; the
\* steps taken so far are read off the clock
LongTick == _invite_expires_at(0) + 1
TicksTaken == (now \div LongTick) + (now % LongTick)

Tick ==
    /\ TicksTaken < MaxTicks
    /\ \E d \in {1, LongTick} : now' = now + d
    /\ UNCHANGED <<dbVars, seqs, req, outbox, hist, auxVars>>

\* the first statements of an issuance have run: the token is generated and the
\* handler goes on to the first of IssuanceSteps
StartIssuance(s, op, uid, e, pw, org, role, cby, caller) ==
    LET others == {t \in Sessions \ {s} :
                      /\ req[t].op \in IssuanceOps
                      /\ req[t].uid = uid
                      /\ req[t].pc \notin {"idle", "done"}}
    IN  /\ req' = [t \in Sessions |->
                      IF t = s
                      THEN [Idle EXCEPT !.op = op, !.pc = IssuanceSteps[1], !.uid = uid,
                                        !.email = e, !.pw = pw, !.org = org,
                                        !.role = role, !.cby = cby, !.caller = caller,
                                        !.raw = seqs.token, !.tnow = now,
                                        !.overlap = (others # {})]
                      ELSE IF t \in others THEN [req[t] EXCEPT !.overlap = TRUE]
                      ELSE req[t]]
        /\ seqs' = [seqs EXCEPT !.token = @ + 1,
                                !.user_id = IF op = "resend_invite" THEN @ ELSE @ + 1]

\* the handler ends without a transaction's effect
Reject(s, op, code) ==
    req' = [req EXCEPT ![s] = [Idle EXCEPT !.op = op, !.pc = "done", !.result = code]]

\* mutant: the user row is not looked up
resend_invite_without_lookup(s) ==
    /\ req[s].pc = "idle"
    /\ seqs.token <= MaxInvites
    /\ \E p \in Principals, uid \in UserIds :
          IF ~require_super_admin(ClaimsOf(p))
          THEN Reject(s, "resend_invite", "403") /\ UNCHANGED seqs
          ELSE StartIssuance(s, "resend_invite", uid, "none", "none", 0, "none", NULL, p)
    /\ UNCHANGED <<now, dbVars, outbox, hist, auxVars>>

\* POST /auth/password/setup/resend/{user_id}: SELECT email FROM users, 404 when
\* there is no row, then generate and hash the token
resend_invite(s) ==
    /\ req[s].pc = "idle"
    /\ seqs.token <= MaxInvites
    /\ \E p \in Principals, uid \in UserIds :
          IF ~require_super_admin(ClaimsOf(p))
          THEN Reject(s, "resend_invite", "403") /\ UNCHANGED seqs
          ELSE IF uid \notin DOMAIN users
          THEN /\ req' = [req EXCEPT ![s] =
                             [Idle EXCEPT !.op = "resend_invite", !.pc = "done",
                                          !.result = "404", !.uid = uid, !.caller = p,
                                          !.body = [detail |-> "User not found"]]]
               /\ UNCHANGED seqs
          ELSE StartIssuance(s, "resend_invite", uid, "none", "none", 0, "none", NULL, p)
    /\ UNCHANGED <<now, dbVars, outbox, hist, auxVars>>

\* an open transaction of another session has inserted a users row with email e:
\* an INSERT of the same email waits for it (users.email is unique)
EmailHeldByOther(s, e) ==
    \E t \in Sessions \ {s} :
        /\ req[t].op \in {"create_admin", "create_user"}
        /\ req[t].pc \notin {"idle", "done"}
        /\ req[t].email = e

\* the two INSERTs that open create_admin and create_user: the users row (its id
\* is taken from the sequence even when the transaction fails; the email is
\* unique) and the membership row, whose org_id is a foreign key to
\* organizations; the IntegrityError of either is not handled
InsertUserAndMembership(s, op, e, pw, org, role, cby, caller) ==
    /\ ~EmailHeldByOther(s, e)
    /\ IF (\E u \in DOMAIN users : users[u].email = e) \/ org \notin organizations
       THEN /\ req' = [req EXCEPT ![s] = [Idle EXCEPT !.op = op, !.pc = "done",
                                                      !.result = "500",
                                                      !.email = e, !.org = org,
                                                      !.caller = caller]]
            /\ seqs' = [seqs EXCEPT !.user_id = @ + 1]
       ELSE StartIssuance(s, op, seqs.user_id, e, pw, org, role, cby, caller)

\* POST /auth/orgs: behind Depends(require_super_admin) the handler inserts the
\* organization (its id comes from the sequence, which moves on even when the
\* INSERT fails; metadata takes its default) and commits in one transaction. The
\* names of organizations are not part of the state: `taken` says whether
\* body.name is the name of an existing organization (name is unique, and the
\* IntegrityError is not handled). The org_uuid of the response is left out.
create_org(s) ==
    /\ req[s].pc = "idle"
    /\ \E p \in Principals, taken \in IF organizations = {} THEN {FALSE} ELSE BOOLEAN :
          IF ~require_super_admin(ClaimsOf(p))
          THEN /\ req' = [req EXCEPT ![s] = [Idle EXCEPT !.op = "create_org",
                                                         !.pc = "done", !.result = "403",
                                                         !.caller = p]]
               /\ UNCHANGED <<organizations, org_metadata, seqs>>
          ELSE IF taken
          THEN /\ seqs.org_id <= MaxOrgs
               /\ req' = [req EXCEPT ![s] = [Idle EXCEPT !.op = "create_org",
                                                         !.pc = "done", !.result = "500",
                                                         !.caller = p]]
               /\ seqs' = [seqs EXCEPT !.org_id = @ + 1]
               /\ UNCHANGED <<organizations, org_metadata>>
          ELSE /\ seqs.org_id <= MaxOrgs
               /\ organizations' = organizations \cup {seqs.org_id}
               /\ org_metadata' = (seqs.org_id :> NULL) @@ org_metadata
               /\ seqs' = [seqs EXCEPT !.org_id = @ + 1]
               /\ req' = [req EXCEPT ![s] = [Idle EXCEPT !.op = "create_org",
                                                         !.pc = "done", !.result = "ok",
                                                         !.caller = p,
                                                         !.body = [org_id |-> seqs.org_id]]]
    /\ UNCHANGED <<now, users, memberships, user_invites, outbox, hist, projects, az,
                   tokens, settings, answer_cache, cache_hist>>

\* POST /auth/admins
create_admin(s) ==
    /\ req[s].pc = "idle"
    /\ \E p \in Principals, e \in Emails, org \in BodyOrgIds,
          pw \in Passwords \cup ShortPasswords :
          IF ~require_super_admin(ClaimsOf(p))
          THEN /\ req' = [req EXCEPT ![s] = [Idle EXCEPT !.op = "create_admin",
                                                         !.pc = "done", !.result = "403",
                                                         !.caller = p]]
               /\ UNCHANGED seqs
          ELSE /\ seqs.token <= MaxInvites
               /\ seqs.user_id - seqs.user_id0 < MaxUsers - 1
               /\ InsertUserAndMembership(s, "create_admin", e, pw, org, "ADMIN", NULL, p)
    /\ UNCHANGED <<now, dbVars, outbox, hist, auxVars>>

\* POST /auth/users
create_user(s) ==
    /\ req[s].pc = "idle"
    /\ seqs.token <= MaxInvites
    /\ seqs.user_id - seqs.user_id0 < MaxUsers - 1
    /\ \E p \in Principals, e \in Emails, org \in BodyOrgIds,
          pw \in Passwords \cup ShortPasswords :
          IF ~create_user_allowed(ClaimsOf(p), org)
          THEN /\ req' = [req EXCEPT ![s] = [Idle EXCEPT !.op = "create_user",
                                                         !.pc = "done", !.result = "403",
                                                         !.org = org, !.caller = p]]
               /\ UNCHANGED seqs
          ELSE InsertUserAndMembership(s, "create_user", e, pw, org, "USER", Some(p), p)
    /\ UNCHANGED <<now, dbVars, outbox, hist, auxVars>>

\* _revoke_open_invites: the UPDATE starts, reading the committed rows; it waits
\* when another open transaction has updated one of the rows it matches
_revoke_open_invites(s) ==
    /\ req[s].op \in IssuanceOps
    /\ req[s].pc = "revoke"
    /\ LET targets == OpenInvites(req[s].uid, "SET_PASSWORD", req[s].tnow)
       IN  req' = [req EXCEPT ![s] =
                     IF \E i \in targets : InviteLockedByOther(s, i)
                     THEN [@ EXCEPT !.pc = "revoke_wait", !.rev = targets,
                                    !.seen = DOMAIN user_invites]
                     ELSE [@ EXCEPT !.pc = StepAfter("revoke"), !.rev = targets,
                                    !.lk_inv = @ \cup targets, !.revoked = TRUE,
                                    !.seen = DOMAIN user_invites]]
    /\ UNCHANGED <<now, dbVars, seqs, outbox, hist, auxVars>>

\* the waiting UPDATE goes on once the rows are free: the WHERE clause is
\* evaluated again on the new version of each row it had matched
revoke_resume(s) ==
    /\ req[s].op \in IssuanceOps
    /\ req[s].pc = "revoke_wait"
    /\ \A i \in req[s].rev : ~InviteLockedByOther(s, i)
    /\ LET still == req[s].rev \cap OpenInvites(req[s].uid, "SET_PASSWORD", req[s].tnow)
       IN  req' = [req EXCEPT ![s] =
                     [@ EXCEPT !.pc = StepAfter("revoke"), !.rev = still,
                               !.lk_inv = @ \cup still, !.revoked = TRUE]]
    /\ UNCHANGED <<now, dbVars, seqs, outbox, hist, auxVars>>

\* INSERT INTO user_invites (...) VALUES (:uid, :th, 'SET_PASSWORD', :exp, :cby)
insert_invite(s) ==
    /\ req[s].op \in IssuanceOps
    /\ req[s].pc = "insert"
    /\ req' = [req EXCEPT ![s] = [@ EXCEPT !.pc = StepAfter("insert"),
                                           !.inv = seqs.invite_id,
                                           !.exp = _invite_expires_at(now)]]
    /\ seqs' = [seqs EXCEPT !.invite_id = @ + 1]
    /\ UNCHANGED <<now, dbVars, outbox, hist, auxVars>>

\* mutant: the UPDATE of _revoke_open_invites is lost
RevokedRowsLost(r) == {}

\* the rows the UPDATE of _revoke_open_invites has changed in transaction r
RevokedRows(r) == IF r.revoked THEN r.rev ELSE {}

\* the invite row of session s as inserted
InviteRow(r) ==
    [user_id |-> r.uid, token_hash |-> _hash_token(r.raw), purpose |-> "SET_PASSWORD",
     expires_at |-> r.exp, used_at |-> NULL, created_by_user_id |-> r.cby]

\* routes/auth.py _build_invite_link
_build_invite_link(raw_token) ==
    [path |-> "/auth/password/setup/verify", token |-> raw_token]

\* mutant: the response carries the invite link
IssuanceResponseWithLink(r) ==
    IF r.op = "resend_invite"
    THEN [message |-> "Invite re-sent", link |-> _build_invite_link(r.raw)]
    ELSE [user_id |-> r.uid, invited |-> TRUE, link |-> _build_invite_link(r.raw)]

\* mutant: the response echoes the password of the body
IssuanceResponseEchoingPassword(r) ==
    IF r.op = "resend_invite"
    THEN [message |-> "Invite re-sent"]
    ELSE [user_id |-> r.uid, invited |-> TRUE, password |-> r.pw]

\* the dict an issuance returns
IssuanceResponse(r) ==
    IF r.op = "resend_invite"
    THEN [message |-> "Invite re-sent"]
    ELSE [user_id |-> r.uid, invited |-> TRUE]

\* session.commit() of an issuance, then bg.add_task(_send_email_invite, ...)
commit_issuance(s) ==
    /\ req[s].op \in IssuanceOps
    /\ req[s].pc = "commit"
    /\ LET r == req[s]
           revd == RevokedRows(r)
           ids == DOMAIN user_invites \cup (IF r.inv # 0 THEN {r.inv} ELSE {})
       IN  /\ user_invites' =
                 [i \in ids |->
                     IF i = r.inv THEN InviteRow(r)
                     ELSE IF i \in revd THEN [user_invites[i] EXCEPT !.expires_at = r.tnow]
                     ELSE user_invites[i]]
           /\ users' = IF r.op = "resend_invite" THEN users
                       ELSE (r.uid :> NewUserRow(r.email)) @@ users
           /\ memberships' = IF r.op = "resend_invite" THEN memberships
                             ELSE memberships \cup
                                  {[user_id |-> r.uid, org_id |-> r.org, role |-> r.role]}
           /\ outbox' = outbox \cup {r.raw}
           /\ hist' = [hist EXCEPT !.last[r.uid] = [id |-> r.inv, overlap |-> r.overlap],
                                   !.seen[r.inv] = r.seen]
           /\ req' = [req EXCEPT ![s] = [Idle EXCEPT !.op = r.op, !.result = "ok",
                                                     !.pc = StepAfter("commit"),
                                                     !.body = IssuanceResponse(r)]]
    /\ UNCHANGED <<now, organizations, seqs, auxVars>>

\* mutant: the body is not validated
SetPasswordBodyUnchecked(token, new_password) == TRUE

\* SetPasswordBody: new_password has min_length 8 (the token is any string)
SetPasswordBody(token, new_password) == Len(new_password) >= 8

\* POST /auth/password/setup: the body is validated before the handler runs;
\* then hash the token, SELECT the invite, check it
setup_password(s) ==
    /\ req[s].pc = "idle"
    /\ \E t \in {0} \cup outbox, pw \in Passwords \cup ShortPasswords :
          LET found == find_invite_by_hash(_hash_token(t))
              i == CHOOSE j \in found : \A k \in found : j <= k
          IN  IF ~SetPasswordBody(t, pw)
              THEN req' = [req EXCEPT ![s] =
                             [Idle EXCEPT !.op = "setup_password", !.pc = "done",
                                          !.result = "422", !.pw = pw]]
              ELSE IF found = {} THEN Reject(s, "setup_password", "400")
              ELSE IF TokenRejected(user_invites[i], now)
              THEN Reject(s, "setup_password", "400")
              ELSE req' = [req EXCEPT ![s] =
                             [Idle EXCEPT !.op = "setup_password", !.pc = "update_user",
                                          !.raw = t, !.inv = i, !.pw = pw,
                                          !.uid = user_invites[i].user_id,
                                          !.exp = user_invites[i].expires_at,
                                          !.tnow = now,
                                          !.superseded =
                                              LET l == hist.last[user_invites[i].user_id]
                                              IN  l.id # i /\ ~l.overlap]]
    /\ UNCHANGED <<now, dbVars, seqs, outbox, hist, auxVars>>

\* UPDATE users SET password_hash=:ph, is_active=TRUE WHERE user_id=:uid
setup_update_user(s) ==
    /\ req[s].op = "setup_password"
    /\ req[s].pc = "update_user"
    /\ ~UserLockedByOther(s, req[s].uid)
    /\ req' = [req EXCEPT ![s] = [@ EXCEPT !.pc = "mark_used", !.lk_usr = req[s].uid]]
    /\ UNCHANGED <<now, dbVars, seqs, outbox, hist, auxVars>>

\* UPDATE user_invites SET used_at=NOW() WHERE invite_id=:iid
setup_mark_used(s) ==
    /\ req[s].op = "setup_password"
    /\ req[s].pc = "mark_used"
    /\ ~InviteLockedByOther(s, req[s].inv)
    /\ req' = [req EXCEPT ![s] = [@ EXCEPT !.pc = "commit", !.lk_inv = {req[s].inv}]]
    /\ UNCHANGED <<now, dbVars, seqs, outbox, hist, auxVars>>

\* session.commit() of setup_password
setup_commit(s) ==
    /\ req[s].op = "setup_password"
    /\ req[s].pc = "commit"
    /\ users' = UsersAfterSetup(req[s].uid, hash_password(req[s].pw))
    /\ user_invites' = mark_invite_used(req[s].inv, req[s].tnow)
    /\ hist' = [hist EXCEPT !.redeemed[req[s].inv] = @ + 1]
    /\ req' = [req EXCEPT ![s] = [Idle EXCEPT !.op = "setup_password", !.pc = "done",
                                              !.result = "ok"]]
    /\ UNCHANGED <<now, memberships, organizations, seqs, outbox, auxVars>>

\* mutant: the verification does not look at used_at
verify_setup_token_ignoring_used(s) ==
    /\ req[s].pc = "idle"
    /\ \E t \in {0} \cup outbox :
          LET found == find_invite_by_hash(_hash_token(t))
              i == CHOOSE j \in found : \A k \in found : j <= k
          IN  req' = [req EXCEPT ![s] =
                        [Idle EXCEPT !.op = "verify_setup_token", !.pc = "done",
                                     !.raw = t,
                                     !.result = IF found = {} THEN "400"
                                                ELSE IF user_invites[i].expires_at < now
                                                THEN "400" ELSE "ok"]]
    /\ UNCHANGED <<now, dbVars, seqs, outbox, hist, auxVars>>

\* GET /auth/password/setup/verify: hash the token, SELECT the invite, check it;
\* the token of the query stays with the answer
verify_setup_token(s) ==
    /\ req[s].pc = "idle"
    /\ \E t \in {0} \cup outbox :
          LET found == find_invite_by_hash(_hash_token(t))
              i == CHOOSE j \in found : \A k \in found : j <= k
          IN  req' = [req EXCEPT ![s] =
                        [Idle EXCEPT !.op = "verify_setup_token", !.pc = "done",
                                     !.raw = t,
                                     !.result = IF found = {} THEN "400"
                                                ELSE IF TokenRejected(user_invites[i], now)
                                                THEN "400" ELSE "ok"]]
    /\ UNCHANGED <<now, dbVars, seqs, outbox, hist, auxVars>>

\* the response is sent and the session is free again
Return(s) ==
    /\ req[s].pc = "done"
    /\ req' = [req EXCEPT ![s] = Idle]
    /\ UNCHANGED <<now, dbVars, seqs, outbox, hist, auxVars>>

Next ==
    \/ Tick
    \/ \E s \in Sessions :
          \/ resend_invite(s)
          \/ create_admin(s)
          \/ create_user(s)
          \/ _revoke_open_invites(s)
          \/ revoke_resume(s)
          \/ insert_invite(s)
          \/ commit_issuance(s)
          \/ setup_password(s)
          \/ setup_update_user(s)
          \/ setup_mark_used(s)
          \/ setup_commit(s)
          \/ verify_setup_token(s)
          \/ Return(s)

Spec == Init /\ [][Next]_vars

(* ====================== authorization checks =========================== *)
(* The checks are pure functions of the decoded token claims (and, for the  *)
(* project-scoped ones, of the projects table).  SpecAuthz draws the claims *)
(* and the projects table from bounded sets and applies one check per step; *)
(* az records the check and its outcome: "allow", the HTTP status of the    *)
(* exception raised, or "empty" for the early empty answer.                 *)

\* project ids a request may name
MaxProjects == 2
ProjectIds == 1..MaxProjects

\* the orgs claim: at most one membership per organization (uq_user_org)
MembershipLists ==
    {o \in SUBSET [org_id : BodyOrgIds, role : Roles] :
        \A m, n \in o : m.org_id = n.org_id => m = n}

\* decoded token claims
ClaimsSet == [uid : {1}, is_super_admin : BOOLEAN, orgs : MembershipLists]

\* the required_roles arguments of require_org_role
RequiredRoleSets == {{"ADMIN"}, {"ADMIN", "USER"}}

\* mutant: only the organizations the principal administers
get_user_org_ids_admin_only(user) ==
    {m.org_id : m \in {x \in user.orgs : x.role = "ADMIN"}}

\* OrgAccessControl.get_user_org_ids
get_user_org_ids(user) == {m.org_id : m \in user.orgs}

\* mutant: the role of the membership is not looked at
get_user_admin_org_ids_any_role(user) == {m.org_id : m \in user.orgs}

\* OrgAccessControl.get_user_admin_org_ids
get_user_admin_org_ids(user) == {m.org_id : m \in {x \in user.orgs : x.role = "ADMIN"}}

\* OrgAccessControl.can_access_project
can_access_project(user, project_org_id) ==
    IF user.is_super_admin THEN TRUE
    ELSE project_org_id \in get_user_org_ids(user)

\* mutant: admin access is decided like plain access
can_admin_project_as_access(user, project_org_id) ==
    IF user.is_super_admin THEN TRUE
    ELSE project_org_id \in get_user_org_ids(user)

\* OrgAccessControl.can_admin_project
can_admin_project(user, project_org_id) ==
    IF user.is_super_admin THEN TRUE
    ELSE project_org_id \in get_user_admin_org_ids(user)

\* OrgAccessControl.validate_project_access
validate_project_access(user, project_org_id, require_admin) ==
    IF require_admin
    THEN (IF ~can_admin_project(user, project_org_id) THEN "403" ELSE "allow")
    ELSE (IF ~can_access_project(user, project_org_id) THEN "403" ELSE "allow")

\* mutant: the super-admin flag is not looked at
require_org_role_members_only(user, org_id, required_roles) ==
    IF \E m \in user.orgs : m.org_id = org_id /\ m.role \in required_roles
    THEN "allow"
    ELSE "403"

\* utils/deps.py require_org_role(required_roles), org_id from the path
require_org_role(user, org_id, required_roles) ==
    IF user.is_super_admin THEN "allow"
    ELSE IF \E m \in user.orgs : m.org_id = org_id /\ m.role \in required_roles
         THEN "allow"
         ELSE "403"

\* SELECT project_org_id FROM projects WHERE project_id = :pid
get_project_org_id(project_id) ==
    IF project_id \in DOMAIN projects THEN Some(projects[project_id]) ELSE NULL

\* utils/deps.py require_access_to_project
require_access_to_project(user, project_id) ==
    LET row == get_project_org_id(project_id)
    IN  IF row = NULL THEN "404"
        ELSE IF user.is_super_admin THEN "allow"
        ELSE IF ~(\E m \in user.orgs : m.org_id = Val(row)) THEN "403"
        ELSE "allow"

\* routes/user_activity.py get_user_chat_history; project_id 0 is no filter
get_user_chat_history(user, project_id) ==
    LET user_org_ids == get_user_org_ids(user)
        project_org_id == get_project_org_id(project_id)
    IN  IF user_org_ids = {} THEN "empty"
        ELSE IF project_id # 0
             THEN IF project_org_id = NULL THEN "404"
                  ELSE IF Val(project_org_id) \notin user_org_ids THEN "403"
                  ELSE "allow"
             ELSE "allow"

\* routes/user_activity.py save_chat_entry
save_chat_entry(user, project_id) ==
    LET project_org_id == get_project_org_id(project_id)
    IN  IF project_org_id = NULL THEN "404"
        ELSE validate_project_access(user, Val(project_org_id), FALSE)

\* routes/org_management.py update_organization_metadata: the inline check
update_organization_metadata(user, org_id) ==
    IF ~user.is_super_admin
    THEN validate_project_access(user, org_id, TRUE)
    ELSE "allow"

\* the organization a project-scoped check is about: the project's, 0 when the
\* project does not exist
OrgOfProject(project_id) ==
    IF project_id \in DOMAIN projects THEN projects[project_id] ELSE 0

\* the record of a check that has run for the principal of this run: the check,
\* the id the request named, the organization and the role level it is about
\* ("ADMIN", "ANY" for any role, "SUPER" for super-admin only), and the outcome
Checked(name, target, org, level, outcome) ==
    [az EXCEPT !.check = name, !.target = target, !.org = org, !.level = level,
               !.outcome = outcome, !.touched = {}]

\* a route guarded by Depends(require_super_admin) is called
call_require_super_admin ==
    /\ az' = Checked("require_super_admin", 0, 0, "SUPER",
                    IF ~require_super_admin(Val(az.user)) THEN "403" ELSE "allow")
    /\ UNCHANGED checkFrame

\* a route guarded by require_org_role(required_roles) is called for org_id
call_require_org_role ==
    /\ \E org_id \in BodyOrgIds, required_roles \in RequiredRoleSets :
            az' = Checked("require_org_role", org_id, org_id,
                    IF "USER" \in required_roles THEN "ANY" ELSE "ADMIN",
                    require_org_role(Val(az.user), org_id, required_roles))
    /\ UNCHANGED checkFrame

\* a route guarded by require_access_to_project is called for project_id
call_require_access_to_project ==
    /\ \E project_id \in ProjectIds :
            az' = Checked("require_access_to_project", project_id,
                    OrgOfProject(project_id), "ANY",
                    require_access_to_project(Val(az.user), project_id))
    /\ UNCHANGED checkFrame

\* an organization route runs validate_project_access for the org_id of its path
call_validate_project_access ==
    /\ \E org_id \in BodyOrgIds, require_admin \in BOOLEAN :
            az' = Checked("validate_project_access", org_id, org_id,
                    IF require_admin THEN "ADMIN" ELSE "ANY",
                    validate_project_access(Val(az.user), org_id, require_admin))
    /\ UNCHANGED checkFrame

\* POST /auth/users: the inline check on the org_id of the body
call_create_user ==
    /\ \E org_id \in BodyOrgIds :
            az' = Checked("create_user", org_id, org_id, "ADMIN",
                    IF create_user_allowed(Val(az.user), org_id) THEN "allow" ELSE "403")
    /\ UNCHANGED checkFrame

\* PUT /orgs/{org_id}/metadata: the inline check
call_update_organization_metadata ==
    /\ \E org_id \in BodyOrgIds :
            az' = Checked("update_organization_metadata", org_id, org_id, "ADMIN",
                    update_organization_metadata(Val(az.user), org_id))
    /\ UNCHANGED checkFrame

\* GET /me/chat-history, with or without the project filter
call_get_user_chat_history ==
    /\ \E project_id \in {0} \cup ProjectIds :
            az' = Checked("get_user_chat_history", project_id,
                    OrgOfProject(project_id), "ANY",
                    get_user_chat_history(Val(az.user), project_id))
    /\ UNCHANGED checkFrame

\* POST /me/chat-history for project_id
call_save_chat_entry ==
    /\ \E project_id \in ProjectIds :
            az' = Checked("save_chat_entry", project_id,
                    OrgOfProject(project_id), "ANY",
                    save_chat_entry(Val(az.user), project_id))
    /\ UNCHANGED checkFrame

\* the claims of the caller and the projects table are drawn from the bounded sets
InitAuthz ==
    /\ InitLife
    /\ \E P \in SUBSET ProjectIds : projects \in [P -> BodyOrgIds]
    /\ \E c \in ClaimsSet : az = [NoCheck EXCEPT !.user = Some(c)]
    /\ InitAux

NextAuthz ==
    \/ call_require_super_admin
    \/ call_require_org_role
    \/ call_require_access_to_project
    \/ call_validate_project_access
    \/ call_create_user
    \/ call_update_organization_metadata
    \/ call_get_user_chat_history
    \/ call_save_chat_entry

SpecAuthz == InitAuthz /\ [][NextAuthz]_vars

(* ====================== organization operations ======================== *)
(* routes/org_management.py.  SpecOrg draws the caller's claims and a       *)
(* database the schema admits (a second user with its invite, memberships,  *)
(* projects) and runs one operation per step.  az records the operation     *)
(* like a check, with the organizations whose rows the handler has read or  *)
(* written.                                                                 *)

\* metadata values of UpdateOrgMetadataRequest
Metadata == {"m1"}

OrgOperations ==
    {"list_organization_projects", "create_organization_project",
     "list_organization_users", "update_organization_metadata",
     "remove_user_from_organization", "get_organization_stats"}

\* the tables the organization operations read and write
orgDb == <<users, memberships, organizations, projects, org_metadata>>
orgFrame == <<now, user_invites, seqs, req, outbox, hist, tokens, settings, answer_cache, cache_hist>>

\* the answer of an operation on the organization of the path
OrgAnswer(name, org_id, level, outcome, touched) ==
    [Checked(name, org_id, org_id, level, outcome) EXCEPT !.touched = touched]

\* the next value of the projects.project_id sequence
NextProjectId ==
    IF DOMAIN projects = {} THEN 1
    ELSE 1 + CHOOSE p \in DOMAIN projects : \A q \in DOMAIN projects : q <= p

\* GET /orgs/{org_id}/projects
list_organization_projects ==
    /\ \E org_id \in BodyOrgIds :
          LET v == validate_project_access(Val(az.user), org_id, FALSE)
          IN  az' = OrgAnswer("list_organization_projects", org_id, "ANY", v,
                              IF v = "allow" THEN {org_id} ELSE {})
    /\ UNCHANGED <<orgDb, orgFrame>>

\* POST /orgs/{org_id}/projects
create_organization_project ==
    \E org_id \in BodyOrgIds :
        LET v == validate_project_access(Val(az.user), org_id, TRUE)
        IN  IF v # "allow"
            THEN /\ az' = OrgAnswer("create_organization_project", org_id, "ADMIN", v, {})
                 /\ UNCHANGED <<orgDb, orgFrame>>
            ELSE IF org_id \notin organizations
            THEN /\ az' = OrgAnswer("create_organization_project", org_id, "ADMIN",
                                    "404", {org_id})
                 /\ UNCHANGED <<orgDb, orgFrame>>
            ELSE /\ NextProjectId <= MaxProjects
                 /\ projects' = projects @@ (NextProjectId :> org_id)
                 /\ az' = OrgAnswer("create_organization_project", org_id, "ADMIN",
                                    "allow", {org_id})
                 /\ UNCHANGED <<users, memberships, organizations, org_metadata, orgFrame>>

\* GET /orgs/{org_id}/users
list_organization_users ==
    /\ \E org_id \in BodyOrgIds :
          LET v == validate_project_access(Val(az.user), org_id, TRUE)
          IN  az' = OrgAnswer("list_organization_users", org_id, "ADMIN", v,
                              IF v = "allow" THEN {org_id} ELSE {})
    /\ UNCHANGED <<orgDb, orgFrame>>

\* PUT /orgs/{org_id}/metadata
put_organization_metadata ==
    \E org_id \in BodyOrgIds, metadata \in Metadata :
        LET v == update_organization_metadata(Val(az.user), org_id)
        IN  IF v # "allow"
            THEN /\ az' = OrgAnswer("update_organization_metadata", org_id, "ADMIN", v, {})
                 /\ UNCHANGED <<orgDb, orgFrame>>
            ELSE IF org_id \notin organizations
            THEN /\ az' = OrgAnswer("update_organization_metadata", org_id, "ADMIN",
                                    "404", {org_id})
                 /\ UNCHANGED <<orgDb, orgFrame>>
            ELSE /\ org_metadata' = [org_metadata EXCEPT ![org_id] = Some(metadata)]
                 /\ az' = OrgAnswer("update_organization_metadata", org_id, "ADMIN",
                                    "allow", {org_id})
                 /\ UNCHANGED <<users, memberships, organizations, projects, orgFrame>>

\* DELETE /orgs/{org_id}/users/{user_id}
remove_user_from_organization ==
    \E org_id \in BodyOrgIds, user_id \in UserIds :
        LET current_user == Val(az.user)
            v == validate_project_access(current_user, org_id, TRUE)
            rows == {m \in memberships : m.user_id = user_id /\ m.org_id = org_id}
        IN  IF v # "allow"
            THEN /\ az' = OrgAnswer("remove_user_from_organization", org_id, "ADMIN", v, {})
                 /\ UNCHANGED <<orgDb, orgFrame>>
            ELSE IF current_user.uid = user_id
            THEN /\ az' = OrgAnswer("remove_user_from_organization", org_id, "ADMIN",
                                    "400", {})
                 /\ UNCHANGED <<orgDb, orgFrame>>
            ELSE IF rows = {}
            THEN /\ az' = OrgAnswer("remove_user_from_organization", org_id, "ADMIN",
                                    "404", {org_id})
                 /\ UNCHANGED <<orgDb, orgFrame>>
            ELSE /\ memberships' = memberships \ rows
                 /\ az' = OrgAnswer("remove_user_from_organization", org_id, "ADMIN",
                                    "allow", {org_id})
                 /\ UNCHANGED <<users, organizations, projects, org_metadata, orgFrame>>

\* GET /orgs/{org_id}/stats
get_organization_stats ==
    /\ \E org_id \in BodyOrgIds :
          LET v == validate_project_access(Val(az.user), org_id, FALSE)
          IN  az' = OrgAnswer("get_organization_stats", org_id, "ANY", v,
                              IF v = "allow" THEN {org_id} ELSE {})
    /\ UNCHANGED <<orgDb, orgFrame>>

\* GET /orgs/: a super-admin gets every row of organizations; anyone else gets
\* an empty list at once when the orgs claim is empty, and otherwise the rows
\* WHERE org_id IN (the ids of the orgs claim). No branch raises. The answer is
\* recorded by the ids of the rows returned.
list_organizations ==
    /\ LET user == Val(az.user)
           user_org_ids == get_user_org_ids(user)
           rows == IF user.is_super_admin THEN organizations
                   ELSE IF user_org_ids = {} THEN {}
                   ELSE {o \in organizations : o \in user_org_ids}
       IN  az' = [Checked("list_organizations", 0, 0, "ANY", "allow")
                     EXCEPT !.touched = rows]
    /\ UNCHANGED <<orgDb, orgFrame>>

\* user 2 has been invited by create_admin / create_user at time 0; its
\* memberships, the organizations and the projects are drawn from what the
\* schema admits (foreign keys kept, one membership per user and organization)
InitOrg ==
    /\ now = 0
    /\ settings = DefaultSettings
    /\ tokens = {}
    /\ answer_cache = << >>
    /\ cache_hist = NoCacheCalls
    /\ users = (1 :> SeedUserRow) @@ (2 :> NewUserRow("new@example.com"))
    /\ organizations \in {{1}, BodyOrgIds}
    /\ org_metadata = [o \in organizations |-> NULL]
    /\ \E l \in MembershipLists :
          /\ \A m \in l : m.org_id \in organizations
          /\ memberships = {[user_id |-> 2, org_id |-> m.org_id, role |-> m.role] : m \in l}
    /\ \E P \in SUBSET ProjectIds : projects \in [P -> organizations]
    /\ user_invites = <<[user_id |-> 2, token_hash |-> _hash_token(1),
                         purpose |-> "SET_PASSWORD", expires_at |-> _invite_expires_at(0),
                         used_at |-> NULL, created_by_user_id |-> NULL]>>
    /\ seqs = [user_id |-> 3, user_id0 |-> 3, invite_id |-> 2, token |-> 2, org_id |-> MaxOrgs + 1]
    /\ req = [s \in Sessions |-> Idle]
    /\ outbox = {1}
    /\ hist = [mail |-> {}, redeemed |-> [i \in InviteIds |-> 0],
               seen |-> [i \in InviteIds |-> {}],
               last |-> [u \in UserIds |->
                           IF u = 2 THEN [id |-> 1, overlap |-> FALSE]
                           ELSE [id |-> 0, overlap |-> FALSE]]]
    /\ \E c \in ClaimsSet : az = [NoCheck EXCEPT !.user = Some(c)]

NextOrg ==
    \/ list_organization_projects
    \/ create_organization_project
    \/ list_organization_users
    \/ put_organization_metadata
    \/ remove_user_from_organization
    \/ get_organization_stats
    \/ list_organizations

SpecOrg == InitOrg /\ [][NextOrg]_vars

(* ====================== session tokens ================================= *)
(* utils/security.py, utils/deps.py and the login route.  A token is the    *)
(* record of what jose.jwt.encode signs: the claims, the exp claim in whole *)
(* seconds, and the key and algorithm of the signature.  tokens remembers   *)
(* for every token login has returned the user, the time of the login and   *)
(* the membership rows the login has read.                                  *)

\* Settings.JWT_ALG
JWT_ALG == "HS256"

\* jose.jwt.encode turns a datetime claim into timegm(utctimetuple()), and
\* jose.jwt.decode reads the clock the same way: whole seconds
NumericDate(t) == t \div TicksPerSecond

\* utils/security.py make_access_token, called at time t
make_access_token(data, secret, algorithm, expire_minutes, t) ==
    LET expire == t + expire_minutes * Minute
    IN  [claims |-> data, exp |-> NumericDate(expire),
         sig |-> [key |-> secret, alg |-> algorithm], wellformed |-> TRUE]

\* mutant: a token is refused from the second of its exp claim on
decode_token_from_exp_on(token, secret, algorithm, t) ==
    IF ~token.wellformed \/ token.sig # [key |-> secret, alg |-> algorithm]
    THEN [raised |-> "jose.JWTError", payload |-> NULL]
    ELSE IF token.exp <= NumericDate(t)
    THEN [raised |-> "jose.ExpiredSignatureError", payload |-> NULL]
    ELSE [raised |-> "none", payload |-> Some(token.claims @@ [exp |-> token.exp])]

\* utils/security.py decode_token, called at time t: jose.jwt.decode checks the
\* format and the signature, then refuses the token when exp < now
decode_token(token, secret, algorithm, t) ==
    IF ~token.wellformed \/ token.sig # [key |-> secret, alg |-> algorithm]
    THEN [raised |-> "jose.JWTError", payload |-> NULL]
    ELSE IF token.exp < NumericDate(t)
    THEN [raised |-> "jose.ExpiredSignatureError", payload |-> NULL]
    ELSE [raised |-> "none", payload |-> Some(token.claims @@ [exp |-> token.exp])]

\* the exception classes an exception class is an instance of
ExceptionBases(c) ==
    IF c = "jose.ExpiredSignatureError"
    THEN {c, "jose.JWTError", "Exception"}
    ELSE {c, "Exception"}

\* the except clause of get_current_user names classes of the module jwt
CaughtByGetCurrentUser ==
    {"jwt.ExpiredSignatureError", "jwt.InvalidTokenError", "jwt.DecodeError"}

\* mutant: the memberships of the caller are read from the database
get_current_user_live(token, t) ==
    LET r == decode_token(token, settings.JWT_SECRET, JWT_ALG, t)
    IN  IF r.raised = "none"
        THEN [status |-> "200", detail |-> "none",
              user |-> {[p EXCEPT !.orgs = ClaimsOf(p.uid).orgs] : p \in r.payload}]
        ELSE IF ExceptionBases(r.raised) \cap CaughtByGetCurrentUser # {}
        THEN [status |-> "401", detail |-> "Invalid or expired token", user |-> NULL]
        ELSE [status |-> "500", detail |-> "Internal Server Error", user |-> NULL]

\* utils/deps.py get_current_user, called at time t: the payload, the 401 of
\* the except clause, or the 500 of an exception the clause does not name
get_current_user(token, t) ==
    LET r == decode_token(token, settings.JWT_SECRET, JWT_ALG, t)
    IN  IF r.raised = "none"
        THEN [status |-> "200", detail |-> "none", user |-> r.payload]
        ELSE IF ExceptionBases(r.raised) \cap CaughtByGetCurrentUser # {}
        THEN [status |-> "401", detail |-> "Invalid or expired token", user |-> NULL]
        ELSE [status |-> "500", detail |-> "Internal Server Error", user |-> NULL]

\* the formats a stored digest can have: the two of the password context, a
\* string with the prefix of one of them and a body that does not parse, the
\* format of another scheme, and a string that is no digest
DigestFormats ==
    {"argon2", "bcrypt", "argon2-malformed", "bcrypt-malformed", "md5_crypt", "plain"}

\* passlib: CryptContext(schemes).verify and <scheme>.verify. A digest of one
\* of the schemes is compared; one that has the prefix of a scheme and does not
\* parse raises MalformedHashError, any other UnknownHashError (both are
\* ValueErrors)
passlib_verify(schemes, secret, hash) ==
    IF hash.alg \in schemes
    THEN [raised |-> "none", value |-> hash.pw = secret]
    ELSE IF \E sch \in schemes :
               hash.alg = [argon2 |-> "argon2-malformed", bcrypt |-> "bcrypt-malformed"][sch]
    THEN [raised |-> "passlib.exc.MalformedHashError", value |-> FALSE]
    ELSE [raised |-> "passlib.exc.UnknownHashError", value |-> FALSE]

\* mutant: pwd_context.verify is called outside a try
verify_password_raised_unguarded(plain_password, hashed_password) ==
    passlib_verify({"argon2", "bcrypt"}, plain_password, hashed_password).raised

\* utils/security.py verify_password: the class of the exception that leaves
\* the function, "none" when it returns. `except Exception` takes what
\* pwd_context.verify raises when it is an Exception; the bare except around
\* bcrypt.verify takes everything
verify_password_raised(plain_password, hashed_password) ==
    LET r == passlib_verify({"argon2", "bcrypt"}, plain_password, hashed_password)
    IN  IF r.raised = "none" THEN "none"
        ELSE IF "Exception" \in ExceptionBases(r.raised) THEN "none"
        ELSE r.raised

\* mutant: every password is accepted
verify_password_any(plain_password, hashed_password) == TRUE

\* utils/security.py verify_password: the value it returns. When the context
\* raises, a digest that starts with '$2' is given to bcrypt.verify, and
\* everything else, and every failure of bcrypt.verify, is False
verify_password(plain_password, hashed_password) ==
    LET r == passlib_verify({"argon2", "bcrypt"}, plain_password, hashed_password)
    IN  IF r.raised = "none" THEN r.value
        ELSE IF hashed_password.alg \in {"bcrypt", "bcrypt-malformed"}
        THEN LET b == passlib_verify({"bcrypt"}, plain_password, hashed_password)
             IN  IF b.raised = "none" THEN b.value ELSE FALSE
        ELSE FALSE

\* the email and password values of LoginBody
LoginEmails == Emails \cup {"nobody@example.com"}
LoginPasswords == Passwords \cup {"OmarEmara123", "wrong-password"}

\* logins of one user in a run
MaxTokensPerUser == 1

\* POST /auth/login.  The sub claim is the user_uuid of the row, which the
\* user_id determines.
login ==
    \E email \in LoginEmails, password \in LoginPasswords :
        LET rows == {u \in DOMAIN users : users[u].email = email}
            answer == [NoCheck EXCEPT !.check = "login", !.input = <<email, password>>]
        IN  IF \/ rows = {}
               \/ \E u \in rows :
                     \/ ~users[u].is_active
                     \/ users[u].password_hash = NULL
                     \/ verify_password_raised(password, Val(users[u].password_hash))
                            # "none"
                     \/ ~verify_password(password, Val(users[u].password_hash))
            THEN /\ az' = [answer EXCEPT
                             !.outcome =
                                 IF \E u \in rows :
                                       /\ users[u].is_active
                                       /\ \E h \in users[u].password_hash :
                                              verify_password_raised(password, h) # "none"
                                 THEN "500" ELSE "401",
                             !.detail =
                                 IF \E u \in rows :
                                       /\ users[u].is_active
                                       /\ \E h \in users[u].password_hash :
                                              verify_password_raised(password, h) # "none"
                                 THEN "Internal Server Error" ELSE "Invalid credentials"]
                 /\ UNCHANGED <<lifeVars, projects, org_metadata, tokens, settings, answer_cache, cache_hist>>
            ELSE \E u \in rows :
                    LET token == make_access_token(ClaimsOf(u), settings.JWT_SECRET,
                                     JWT_ALG, settings.ACCESS_TTL_MIN, now)
                        issued == [tok |-> token, uid |-> u, issued_at |-> now,
                                   snapshot |-> {m \in memberships : m.user_id = u}]
                    IN  /\ Cardinality({e \in tokens : e.uid = u}) < MaxTokensPerUser
                        /\ tokens' = tokens \cup {issued}
                        /\ az' = [answer EXCEPT !.outcome = "200", !.cred = Some(token)]
                        /\ UNCHANGED <<lifeVars, projects, org_metadata, settings, answer_cache, cache_hist>>

\* a token signed with a key that is not JWT_SECRET, and a string that is no JWT
ForgedToken ==
    [claims |-> [uid |-> 2, is_super_admin |-> TRUE, orgs |-> {}], exp |-> 0,
     sig |-> [key |-> "guessed", alg |-> JWT_ALG], wellformed |-> TRUE]
MalformedToken == [ForgedToken EXCEPT !.wellformed = FALSE]

\* what a request can present as its bearer credential
Credentials == {e.tok : e \in tokens} \cup {ForgedToken, MalformedToken}

\* Depends(get_current_user) of a request that presents a credential
call_get_current_user ==
    /\ \E token \in Credentials :
          LET r == get_current_user(token, now)
          IN  az' = [NoCheck EXCEPT !.user = r.user, !.check = "get_current_user",
                                    !.outcome = r.status, !.detail = r.detail,
                                    !.cred = Some(token), !.at = now]
    /\ UNCHANGED checkFrame

\* the handler body runs once get_current_user has returned the payload
Authenticated == az.check = "get_current_user" /\ az.user # {}

bearer_get_organization_stats == Authenticated /\ get_organization_stats
bearer_list_organization_users == Authenticated /\ list_organization_users
bearer_remove_user_from_organization == Authenticated /\ remove_user_from_organization

\* clock steps of a run of SpecSession
MaxSessionTicks == 6
\* the step that leads to one second before a token of time 0 expires; it is
\* taken once
SessionJump == settings.ACCESS_TTL_MIN * Minute - TicksPerSecond
SessionTicksTaken == (now \div SessionJump) + (now % SessionJump)

SessionTick ==
    /\ SessionTicksTaken < MaxSessionTicks
    /\ \E d \in {1, SessionJump} :
          /\ now + d < 2 * SessionJump
          /\ now' = now + d
    /\ UNCHANGED <<users, memberships, organizations, user_invites, seqs, req, outbox,
                   hist, auxVars>>

\* user 2 has been invited at time 0 and has or has not redeemed the invite;
\* its memberships are drawn from what the schema admits
InitSession ==
    /\ now = 0
    /\ settings = DefaultSettings
    /\ tokens = {}
    /\ answer_cache = << >>
    /\ cache_hist = NoCacheCalls
    /\ organizations = {1}
    /\ org_metadata = [o \in organizations |-> NULL]
    /\ projects = << >>
    /\ \E redeemed \in BOOLEAN :
          /\ users = (1 :> SeedUserRow) @@
                     (2 :> IF redeemed
                           THEN [NewUserRow("new@example.com") EXCEPT
                                    !.password_hash = Some(hash_password("longenough1")),
                                    !.is_active = TRUE]
                           ELSE NewUserRow("new@example.com"))
          /\ user_invites = <<[user_id |-> 2, token_hash |-> _hash_token(1),
                               purpose |-> "SET_PASSWORD",
                               expires_at |-> _invite_expires_at(0),
                               used_at |-> IF redeemed THEN Some(0) ELSE NULL,
                               created_by_user_id |-> NULL]>>
          /\ hist = [mail |-> {}, redeemed |-> [i \in InviteIds |-> IF redeemed /\ i = 1 THEN 1 ELSE 0],
                     seen |-> [i \in InviteIds |-> {}],
                     last |-> [u \in UserIds |->
                                 IF u = 2 THEN [id |-> 1, overlap |-> FALSE]
                                 ELSE [id |-> 0, overlap |-> FALSE]]]
    /\ \E l \in MembershipLists :
          /\ \A m \in l : m.org_id \in organizations
          /\ memberships = {[user_id |-> 2, org_id |-> m.org_id, role |-> m.role] : m \in l}
    /\ seqs = [user_id |-> 3, user_id0 |-> 3, invite_id |-> 2, token |-> 2, org_id |-> MaxOrgs + 1]
    /\ req = [s \in Sessions |-> Idle]
    /\ outbox = {1}
    /\ az = NoCheck

NextSession ==
    \/ SessionTick
    \/ login
    \/ call_get_current_user
    \/ bearer_get_organization_stats
    \/ bearer_list_organization_users
    \/ bearer_remove_user_from_organization

SpecSession == InitSession /\ [][NextSession]_vars

(* ====================== delegated creation ============================= *)
(* SpecDelegate starts with a second user who has redeemed an invite and     *)
(* holds any memberships the schema admits, and runs create_user one request *)
(* at a time.                                                                *)

\* users 1 (the seed) and 2 (active, email "admin@example.com"), organizations
\* 1..MaxOrgs, every membership list of user 2, its invite used
InitDelegate ==
    /\ now = 0
    /\ settings = DefaultSettings
    /\ tokens = {}
    /\ answer_cache = << >>
    /\ cache_hist = NoCacheCalls
    /\ organizations = BodyOrgIds
    /\ org_metadata = [o \in organizations |-> NULL]
    /\ projects = << >>
    /\ users = (1 :> SeedUserRow) @@
               (2 :> [NewUserRow("admin@example.com") EXCEPT
                         !.password_hash = Some(hash_password("longenough1")),
                         !.is_active = TRUE])
    /\ \E l \in MembershipLists :
          memberships = {[user_id |-> 2, org_id |-> m.org_id, role |-> m.role] : m \in l}
    /\ user_invites = <<[user_id |-> 2, token_hash |-> _hash_token(1),
                         purpose |-> "SET_PASSWORD", expires_at |-> _invite_expires_at(0),
                         used_at |-> Some(0), created_by_user_id |-> NULL]>>
    /\ seqs = [user_id |-> 3, user_id0 |-> 3, invite_id |-> 2, token |-> 2,
               org_id |-> MaxOrgs + 1]
    /\ req = [s \in Sessions |-> Idle]
    /\ outbox = {1}
    /\ hist = [mail |-> {}, redeemed |-> [i \in InviteIds |-> IF i = 1 THEN 1 ELSE 0],
               seen |-> [i \in InviteIds |-> {}],
               last |-> [u \in 1..(MaxUsers + 1) |->
                           IF u = 2 THEN [id |-> 1, overlap |-> FALSE]
                           ELSE [id |-> 0, overlap |-> FALSE]]]
    /\ az = NoCheck

NextDelegate ==
    \/ Tick
    \/ \E s \in OnboardSessions :
          \/ create_user(s)
          \/ _revoke_open_invites(s)
          \/ insert_invite(s)
          \/ commit_issuance(s)
          \/ Return(s)

SpecDelegate == InitDelegate /\ [][NextDelegate]_vars

(* ====================== stored digests ================================= *)
(* SpecDigest runs login against an account whose stored digest has any of  *)
(* the formats of DigestFormats.                                            *)

\* user 2 is active and its password_hash holds a digest of any format
InitDigest ==
    /\ now = 0
    /\ settings = DefaultSettings
    /\ tokens = {}
    /\ answer_cache = << >>
    /\ cache_hist = NoCacheCalls
    /\ organizations = {1}
    /\ org_metadata = [o \in organizations |-> NULL]
    /\ projects = << >>
    /\ \E f \in DigestFormats, pw \in Passwords :
          users = (1 :> SeedUserRow) @@
                  (2 :> [NewUserRow("new@example.com") EXCEPT
                            !.password_hash = Some([alg |-> f, pw |-> pw]),
                            !.is_active = TRUE])
    /\ user_invites = <<[user_id |-> 2, token_hash |-> _hash_token(1),
                         purpose |-> "SET_PASSWORD", expires_at |-> _invite_expires_at(0),
                         used_at |-> Some(0), created_by_user_id |-> NULL]>>
    /\ hist = [mail |-> {}, redeemed |-> [i \in InviteIds |-> IF i = 1 THEN 1 ELSE 0],
               seen |-> [i \in InviteIds |-> {}],
               last |-> [u \in UserIds |->
                           IF u = 2 THEN [id |-> 1, overlap |-> FALSE]
                           ELSE [id |-> 0, overlap |-> FALSE]]]
    /\ memberships = {[user_id |-> 2, org_id |-> 1, role |-> "USER"]}
    /\ seqs = [user_id |-> 3, user_id0 |-> 3, invite_id |-> 2, token |-> 2, org_id |-> 2]
    /\ req = [s \in Sessions |-> Idle]
    /\ outbox = {1}
    /\ az = NoCheck

NextDigest ==
    \/ SessionTick
    \/ login

SpecDigest == InitDigest /\ [][NextDigest]_vars

(* ====================== invite token digests =========================== *)
(* The two implementations of the invite token digest, routes/auth.py        *)
(* _hash_token and utils/invites_async.py hash_token, applied to raw tokens  *)
(* under the configurations the environment can give.                        *)

\* utils/invites_async.py hash_token: HMAC-SHA256 keyed with INVITE_TOKEN_HMAC_SECRET
hash_token(raw) == [key |-> settings.INVITE_TOKEN_HMAC_SECRET, msg |-> raw]

\* values of INVITE_TOKEN_HMAC_SECRET and JWT_SECRET: the default, one set by
\* the environment, and for the invite secret the empty string (not set)
InviteSecrets == {"", INVITE_TOKEN_HMAC_SECRET, "invite-secret-of-env"}
JwtSecrets == {JWT_SECRET, "jwt-secret-of-env", "jwt-secret-rotated"}

\* raw tokens the digests are taken of
MaxRawTokens == 6
RawTokens == 1..MaxRawTokens

\* routes/auth.py _hash_token is applied to a raw token
call__hash_token ==
    /\ \E raw \in RawTokens :
          az' = [NoCheck EXCEPT !.check = "_hash_token", !.input = <<raw>>,
                                !.outcome = _hash_token(raw)]
    /\ UNCHANGED checkFrame

\* utils/invites_async.py hash_token is applied to a raw token
call_hash_token ==
    /\ \E raw \in RawTokens :
          az' = [NoCheck EXCEPT !.check = "hash_token", !.input = <<raw>>,
                                !.outcome = hash_token(raw)]
    /\ UNCHANGED checkFrame

InitHash ==
    /\ InitLife
    /\ projects = << >>
    /\ az = NoCheck
    /\ org_metadata = [o \in organizations |-> NULL]
    /\ tokens = {}
    /\ answer_cache = << >>
    /\ cache_hist = NoCacheCalls
    /\ \E i \in InviteSecrets, j \in JwtSecrets :
          settings = [DefaultSettings EXCEPT !.INVITE_TOKEN_HMAC_SECRET = i,
                                             !.JWT_SECRET = j]

NextHash ==
    \/ call__hash_token
    \/ call_hash_token

SpecHash == InitHash /\ [][NextHash]_vars

(* ====================== invite delivery ================================ *)

\* mutant: a delivery that fails takes the invite row back
_send_email_invite_undoing ==
    \E t \in outbox, sent \in BOOLEAN :
        /\ ~\E m \in hist.mail : m.token = t
        /\ hist' = [hist EXCEPT !.mail = @ \cup {[token |-> t, sent |-> sent]}]
        /\ user_invites' = [i \in DOMAIN user_invites |->
                               IF ~sent /\ user_invites[i].token_hash = _hash_token(t)
                               THEN [user_invites[i] EXCEPT !.expires_at = 0]
                               ELSE user_invites[i]]
        /\ UNCHANGED <<now, users, memberships, organizations, seqs, req, outbox, auxVars>>

\* the background task _send_email_invite runs once for a link that
\* bg.add_task has queued: the mail is sent (or printed), or smtplib raises
_send_email_invite ==
    \E t \in outbox, sent \in BOOLEAN :
        /\ ~\E m \in hist.mail : m.token = t
        /\ hist' = [hist EXCEPT !.mail = @ \cup {[token |-> t, sent |-> sent]}]
        /\ UNCHANGED <<now, dbVars, seqs, req, outbox, auxVars>>

(* ====================== onboarding ===================================== *)
(* SpecOnboard runs the requests of the invite lifecycle one at a time and   *)
(* lets login be called in between.                                          *)


NextOnboard ==
    \/ Tick
    \/ login
    \/ \E s \in OnboardSessions :
          \/ resend_invite(s)
          \/ create_admin(s)
          \/ create_user(s)
          \/ _revoke_open_invites(s)
          \/ insert_invite(s)
          \/ commit_issuance(s)
          \/ setup_password(s)
          \/ setup_update_user(s)
          \/ setup_mark_used(s)
          \/ setup_commit(s)
          \/ Return(s)

SpecOnboard == Init /\ [][NextOnboard]_vars

(* ====================== requests one at a time ========================= *)
(* SpecSerial runs the requests of the invite lifecycle one at a time, with  *)
(* the background delivery of the invite mails and with storage failures.    *)

\* mutant: the statements a failed setup_password has run stay in the database
storage_failure_keeping_writes(s) ==
    /\ req[s].pc \notin {"idle", "done"}
    /\ users' = IF req[s].op = "setup_password" /\ req[s].pc \in {"mark_used", "commit"}
                THEN UsersAfterSetup(req[s].uid, hash_password(req[s].pw))
                ELSE users
    /\ Reject(s, req[s].op, "500")
    /\ UNCHANGED <<now, memberships, organizations, user_invites, seqs, outbox, hist,
                   auxVars>>

\* a statement or the commit of the open transaction of s raises: the handler
\* leaves `async with request.app.db_client() as session` by the exception, the
\* session is closed without a commit and the request ends as a 500
storage_failure(s) ==
    /\ req[s].pc \notin {"idle", "done"}
    /\ Reject(s, req[s].op, "500")
    /\ UNCHANGED <<now, dbVars, seqs, outbox, hist, auxVars>>

NextSerial ==
    \/ Tick
    \/ _send_email_invite
    \/ \E s \in OnboardSessions :
          \/ resend_invite(s)
          \/ create_org(s)
          \/ create_admin(s)
          \/ create_user(s)
          \/ _revoke_open_invites(s)
          \/ insert_invite(s)
          \/ commit_issuance(s)
          \/ setup_password(s)
          \/ setup_update_user(s)
          \/ setup_mark_used(s)
          \/ setup_commit(s)
          \/ verify_setup_token(s)
          \/ storage_failure(s)
          \/ Return(s)

SpecSerial == Init /\ [][NextSerial]_vars

(* ====================== revocation on its own ========================== *)
(* SpecRevoke applies the UPDATE of revoke_open_invites (utils/             *)
(* invites_async.py; routes/auth.py _revoke_open_invites is the same        *)
(* statement) as a statement of its own to invite tables the schema admits, *)
(* with the clock moving between the applications.                          *)

\* values of the purpose argument (user_invites.purpose is TEXT)
Purposes == {"SET_PASSWORD", "RESET_PASSWORD"}

\* UPDATE user_invites SET expires_at = NOW() WHERE user_id = :uid AND
\* purpose = :p AND used_at IS NULL AND expires_at > NOW(). az records the call:
\* its arguments, the time, the rows the UPDATE has matched, and whether the
\* call before it was the same one
revoke_open_invites ==
    /\ \E user_id \in UserIds, purpose \in Purposes :
          LET targets == OpenInvites(user_id, purpose, now)
          IN  /\ user_invites' =
                    [i \in DOMAIN user_invites |->
                        IF i \in targets
                        THEN [user_invites[i] EXCEPT !.expires_at = now]
                        ELSE user_invites[i]]
              /\ az' = [NoCheck EXCEPT
                           !.check = "revoke_open_invites",
                           !.input = <<user_id, purpose>>,
                           !.at = now,
                           !.touched = targets,
                           !.detail = IF /\ az.check = "revoke_open_invites"
                                         /\ az.input = <<user_id, purpose>>
                                      THEN "repeated" ELSE "first"]
    /\ UNCHANGED <<now, users, memberships, organizations, seqs, req, outbox, hist,
                   projects, org_metadata, tokens, settings, answer_cache, cache_hist>>

\* users 1 and 2 and an invite table the schema admits: every row of a user, for
\* a purpose, unused or used, with an expiry that has passed or lies ahead
InitRevoke ==
    /\ now = 0
    /\ settings = DefaultSettings
    /\ tokens = {}
    /\ answer_cache = << >>
    /\ cache_hist = NoCacheCalls
    /\ users = (1 :> SeedUserRow) @@ (2 :> NewUserRow("new@example.com"))
    /\ memberships = {}
    /\ organizations = {1}
    /\ \E n \in 0..MaxInvites :
          \E t \in [1..n -> [user_id : DOMAIN users, purpose : Purposes,
                             expires_at : {0, _invite_expires_at(0)},
                             used_at : {NULL, Some(0)}]] :
              user_invites =
                  [i \in 1..n |->
                      [user_id |-> t[i].user_id, token_hash |-> _hash_token(i),
                       purpose |-> t[i].purpose, expires_at |-> t[i].expires_at,
                       used_at |-> t[i].used_at, created_by_user_id |-> NULL]]
    /\ seqs = [user_id |-> 3, user_id0 |-> 3, invite_id |-> MaxInvites + 1, token |-> MaxInvites + 1,
               org_id |-> 2]
    /\ req = [s \in Sessions |-> Idle]
    /\ outbox = {}
    /\ hist = [mail |-> {}, redeemed |-> [i \in InviteIds |-> 0],
               seen |-> [i \in InviteIds |-> {}],
               last |-> [u \in UserIds |-> [id |-> 0, overlap |-> FALSE]]]
    /\ projects = << >>
    /\ az = NoCheck
    /\ org_metadata = [o \in organizations |-> NULL]

NextRevoke ==
    \/ Tick
    \/ revoke_open_invites

SpecRevoke == InitRevoke /\ [][NextRevoke]_vars

(* ====================== answer cache =================================== *)
(* routes/nlp.py: the process-local dict on app.state that keeps the answer  *)
(* of POST /index/answer for the audio endpoint.  time.time() reads the wall *)
(* clock; uuid4() gives an id that no earlier put was given.  The two        *)
(* functions are synchronous, so a call runs without interleaving.           *)
(* cache_hist.puts remembers every item by its id, cache_hist.call the last  *)
(* call: its answer_id, what it returned, the clock it read and the dict it  *)
(* found.                                                                    *)
TTL_SECONDS == 600
MaxAnswers == 3
MaxCacheTicks == 3

Answers == {"answer one", "answer two"}
AnswerIds == 1..MaxAnswers

\* the longest age _purge_expired keeps, on the model's clock
CacheTTL == TTL_SECONDS * TicksPerSecond

_purge_expired_at_ttl(cache, t) ==
    [k \in {j \in DOMAIN cache : ~(t - cache[j].ts >= CacheTTL)} |-> cache[k]]

_purge_expired(cache, t) ==
    [k \in {j \in DOMAIN cache : ~(t - cache[j].ts > CacheTTL)} |-> cache[k]]

cacheFrame == <<dbVars, seqs, req, outbox, hist, projects, az, org_metadata, tokens, settings>>

cache_put_answer ==
    \E project_id \in ProjectIds, answer \in Answers,
       answer_id \in AnswerIds \ DOMAIN cache_hist.puts :
        LET cache == _purge_expired(answer_cache, now)
            item == [project_id |-> project_id, answer |-> answer, ts |-> now]
        IN  /\ answer_cache' = [k \in DOMAIN cache \cup {answer_id} |->
                                   IF k = answer_id THEN item ELSE cache[k]]
            /\ cache_hist' = [puts |-> [k \in DOMAIN cache_hist.puts \cup {answer_id} |->
                                           IF k = answer_id THEN item ELSE cache_hist.puts[k]],
                              call |-> [op |-> "cache_put_answer", answer_id |-> answer_id,
                                        returned |-> Some(answer_id), at |-> now,
                                        before |-> answer_cache]]
            /\ UNCHANGED <<now, cacheFrame>>

cache_get_answer ==
    \E answer_id \in AnswerIds :
        LET cache == _purge_expired(answer_cache, now)
            returned == IF answer_id \in DOMAIN cache
                        THEN Some(cache[answer_id].answer) ELSE NULL
        IN  /\ answer_cache' = cache
            /\ cache_hist' = [cache_hist EXCEPT
                                 !.call = [op |-> "cache_get_answer", answer_id |-> answer_id,
                                           returned |-> returned, at |-> now,
                                           before |-> answer_cache]]
            /\ UNCHANGED <<now, cacheFrame>>

\* the clock advances, by a tick or by the lifetime of an answer
CacheTicksTaken == (now \div CacheTTL) + (now % CacheTTL)

CacheTick ==
    /\ CacheTicksTaken < MaxCacheTicks
    /\ \E d \in {1, CacheTTL} : now' = now + d
    /\ UNCHANGED <<cacheFrame, answer_cache, cache_hist>>

NextCache ==
    \/ CacheTick
    \/ cache_put_answer
    \/ cache_get_answer

SpecCache == Init /\ [][NextCache]_vars

(* ====================== the claims ===================================== *)

\* C1 (as claimed): exactly-once redemption: whatever the interleaving of the
\* setup_password requests that present one raw token, at most one of them
\* succeeds.
C1_ExactlyOnce == \A i \in InviteIds : hist.redeemed[i] <= 1

\* C2: in every committed state every active user has a password hash.
C2_ActiveHasPassword ==
    \A u \in DOMAIN users : users[u].is_active => users[u].password_hash # NULL

\* a user created by create_admin / create_user has been activated by a redemption
C2_Witness ==
    \E u \in DOMAIN users :
        /\ ~users[u].is_super_admin
        /\ users[u].is_active
        /\ users[u].password_hash = Some(hash_password("longenough1"))

\* C3 (as claimed): USED and EXPIRED are terminal: no step takes an invite out of
\* either of them (not back to PENDING, and not from EXPIRED to USED).
C3_TerminalStates ==
    [][\A i \in DOMAIN user_invites :
          InvState(i) \in {"USED", "EXPIRED"} => InvState(i)' = InvState(i)]_vars

\* C4 (as claimed): setup_password goes on to its updates only when the expires_at
\* it read is strictly later than the time of the check.
C4_StrictExpiry ==
    \A s \in Sessions :
        (req[s].op = "setup_password" /\ req[s].pc # "done") => req[s].exp > req[s].tnow

\* C5: when the issuance that committed last for a user overlapped no other
\* issuance for that user, the only invite of the user that can be PENDING is the
\* one it inserted.
C5_OneRedeemable ==
    \A u \in DOMAIN users :
        (hist.last[u].id # 0 /\ ~hist.last[u].overlap)
            => PendingOf(u, "SET_PASSWORD") \subseteq {hist.last[u].id}

\* a second issuance, run on its own, has revoked the PENDING invite it found
C5_Witness ==
    \E u \in DOMAIN users :
        /\ hist.last[u].id # 0
        /\ ~hist.last[u].overlap
        /\ PendingOf(u, "SET_PASSWORD") = {hist.last[u].id}
        /\ \E j \in DOMAIN user_invites :
              /\ j # hist.last[u].id
              /\ user_invites[j].user_id = u
              /\ user_invites[j].used_at = NULL
              /\ user_invites[j].expires_at <= now
              /\ user_invites[j].expires_at < _invite_expires_at(0)

\* C6 (as claimed): once a later issuance for the same user, run on its own, has
\* committed, a redemption that presents the earlier token is rejected.
C6_FirstTokenFails ==
    \A s \in Sessions :
        (req[s].op = "setup_password" /\ req[s].pc # "done") => ~req[s].superseded

\* C7: two invites of one (user, purpose) are PENDING together only when each was
\* inserted by an issuance whose revoke statement started before the other
\* invite was committed; the witness shows that this state is reached.
C7_RaceLeavesTwoPending ==
    \A i, j \in DOMAIN user_invites :
        (/\ i # j
         /\ user_invites[i].user_id = user_invites[j].user_id
         /\ user_invites[i].purpose = user_invites[j].purpose
         /\ InvState(i) = "PENDING"
         /\ InvState(j) = "PENDING")
            => (i \notin hist.seen[j] /\ j \notin hist.seen[i])

\* two PENDING invites for the same (user, purpose)
C7_Witness ==
    \E u \in DOMAIN users : Cardinality(PendingOf(u, "SET_PASSWORD")) >= 2

\* C8: the password hash, the active flag and used_at change only in the commit
\* step of a setup_password, and that step applies all three; in no other step
\* does a users row or a used_at change.
C8_AtomicRedemption ==
    [][\/ \E s \in Sessions :
             /\ req[s].op = "setup_password"
             /\ req[s].pc = "commit"
             /\ req'[s].pc = "done"
             /\ users'[req[s].uid].password_hash = Some(hash_password(req[s].pw))
             /\ users'[req[s].uid].is_active
             /\ user_invites'[req[s].inv].used_at # NULL
       \/ /\ \A u \in DOMAIN users : users'[u] = users[u]
          /\ \A i \in DOMAIN user_invites :
                user_invites'[i].used_at = user_invites[i].used_at]_vars

\* a redemption has committed
C8_Witness ==
    \E i \in DOMAIN user_invites :
        /\ user_invites[i].used_at # NULL
        /\ users[user_invites[i].user_id].is_active
        /\ users[user_invites[i].user_id].password_hash = Some(hash_password("longenough1"))

\* C9 (as claimed): when the new invite has been inserted, the effect of the
\* revocation is already committed: the rows it matched are no longer open in
\* the committed table.
C9_RevokeCommittedBeforeInsert ==
    \A s \in Sessions :
        (req[s].op \in IssuanceOps /\ req[s].pc # "done" /\ req[s].inv # 0)
            => (req[s].revoked
                /\ req[s].rev \cap OpenInvites(req[s].uid, "SET_PASSWORD", req[s].tnow) = {})

\* C9 (amended): in an issuance the revoke statement has run when the INSERT
\* runs, and the one commit of the transaction makes the new invite visible
\* together with the revocation: the invite is not in the committed table
\* before that step, and after it every row the revocation matched has
\* expires_at = NOW().
C9_RevokeThenInsertOneCommit ==
    [][\A s \in Sessions :
          /\ (req[s].op \in IssuanceOps /\ req[s].pc = "insert" /\ req'[s].pc # "insert")
                => req[s].revoked
          /\ (req[s].op \in IssuanceOps /\ req[s].pc = "commit" /\ req'[s].pc = "done")
                => /\ req[s].revoked
                   /\ req[s].inv \notin DOMAIN user_invites
                   /\ req[s].inv \in DOMAIN user_invites'
                   /\ \A i \in req[s].rev : user_invites'[i].expires_at = req[s].tnow]_vars

\* an issuance has revoked a PENDING invite and inserted the new one, and has not
\* committed yet
C9_Witness ==
    \E s \in Sessions :
        /\ req[s].op \in IssuanceOps
        /\ req[s].pc = "commit"
        /\ req[s].revoked
        /\ req[s].rev # {}
        /\ req[s].inv # 0

\* C10 (as claimed): a principal whose claims have is_super_admin = true is let
\* through by every authorization check, whatever organization or project the
\* request names and whatever role is required; a 404 for a project that does
\* not exist is not a refusal.
C10_SuperAdminAlwaysAllowed ==
    \A user \in az.user :
        (user.is_super_admin /\ az.check # "none") => az.outcome \in {"allow", "404"}

\* C11: for a principal that is not super-admin, a check about organization T
\* allows exactly when the membership list has an entry for T whose role
\* satisfies the level: ADMIN when ADMIN is required, any role otherwise.
C11_AllowIffMembership ==
    \A user \in az.user :
        (~user.is_super_admin /\ az.org # 0 /\ az.level \in {"ADMIN", "ANY"})
            => ((az.outcome = "allow")
                  <=> \E m \in user.orgs :
                         /\ m.org_id = az.org
                         /\ (az.level = "ADMIN" => m.role = "ADMIN"))

\* memberships [{org 1, USER}]: 'ADMIN at org 1' has been refused through
\* OrgAccessControl
C11_Witness ==
    \E user \in az.user :
        /\ ~user.is_super_admin
        /\ user.orgs = {[org_id |-> 1, role |-> "USER"]}
        /\ az.check = "validate_project_access"
        /\ az.level = "ADMIN"
        /\ az.org = 1
        /\ az.outcome = "403"

\* C12: an organization operation called by a principal that is not super-admin
\* and lacks the membership the operation requires at the org_id of the path
\* (any role for list projects and stats, ADMIN for the other four) answers 403,
\* has read no row of that organization, and leaves every table as it was.
C12_TenantIsolation ==
    [][\A user \in az'.user :
          LET required == IF az'.check \in {"list_organization_projects",
                                            "get_organization_stats"}
                          THEN Roles ELSE {"ADMIN"}
          IN  (/\ az'.check \in OrgOperations
               /\ ~user.is_super_admin
               /\ ~(\E m \in user.orgs : m.org_id = az'.org /\ m.role \in required))
                  => (/\ az'.outcome = "403"
                      /\ az'.touched = {}
                      /\ UNCHANGED orgDb)]_vars

\* a principal with role USER at org 1 has been refused the removal of user 2,
\* who is a member of org 1
C12_Witness ==
    \E user \in az.user :
        /\ ~user.is_super_admin
        /\ [org_id |-> 1, role |-> "USER"] \in user.orgs
        /\ az.check = "remove_user_from_organization"
        /\ az.org = 1
        /\ az.outcome = "403"
        /\ \E m \in memberships : m.user_id = 2 /\ m.org_id = 1

\* the operations SpecSession runs behind get_current_user
SessionOperations ==
    {"get_organization_stats", "list_organization_users",
     "remove_user_from_organization"}

\* C13: the outcome of an authorization check made with a token that login has
\* issued and that still decodes depends only on the membership rows the login
\* has read (and the super-admin flag): it is refused exactly when that snapshot
\* has no membership of the organization with a role the operation accepts,
\* whatever the user_memberships table holds when the check runs.
C13_DecisionFromLoginSnapshot ==
    \A k \in az.cred : \A e \in tokens :
        (e.tok = k /\ az.check \in SessionOperations)
            => LET required == IF az.check = "get_organization_stats"
                               THEN Roles ELSE {"ADMIN"}
                   member == \E m \in e.snapshot :
                                m.org_id = az.org /\ m.role \in required
               IN  (az.outcome = "403")
                      <=> ~(users[e.uid].is_super_admin \/ member)

\* a user whose membership of the organization has been removed since the login
\* is still let through with the token of that login
C13_Witness ==
    \E k \in az.cred : \E e \in tokens :
        /\ e.tok = k
        /\ az.check = "get_organization_stats"
        /\ az.outcome = "allow"
        /\ ~users[e.uid].is_super_admin
        /\ \E m \in e.snapshot : m.org_id = az.org
        /\ ~\E m \in memberships : m.user_id = e.uid /\ m.org_id = az.org

\* the time a token issued at t with the configured TTL runs out
ExpiryOf(t) == t + settings.ACCESS_TTL_MIN * Minute

\* C14 (as claimed): a token issued at time t with a TTL of m minutes decodes at
\* every time strictly before t + m and fails to decode at every time after
\* t + m.
C14_ExpiryBoundary ==
    \A k \in az.cred : \A e \in tokens :
        (e.tok = k /\ az.check = "get_current_user")
            => /\ az.at < ExpiryOf(e.issued_at) => az.outcome = "200"
               /\ az.at > ExpiryOf(e.issued_at) => az.outcome # "200"

\* C14 (amended): a token issued at time t with a TTL of m minutes decodes at
\* every time strictly before t + m and fails to decode at every time at least
\* one second after t + m.
C14_ExpiryWithinOneSecond ==
    \A k \in az.cred : \A e \in tokens :
        (e.tok = k /\ az.check = "get_current_user")
            => /\ az.at < ExpiryOf(e.issued_at) => az.outcome = "200"
               /\ az.at >= ExpiryOf(e.issued_at) + TicksPerSecond => az.outcome # "200"

\* an issued token has been presented one second or more after t + m and refused
C14_Witness ==
    \E k \in az.cred : \E e \in tokens :
        /\ e.tok = k
        /\ az.check = "get_current_user"
        /\ az.at >= ExpiryOf(e.issued_at) + TicksPerSecond
        /\ az.outcome # "200"

\* C15 (as claimed): a bearer credential that is malformed, whose signature does
\* not verify, or that has expired is rejected by get_current_user with the 401
\* 'Invalid or expired token', the same for the three cases, and no payload
\* reaches a handler.
C15_InvalidTokenIs401 ==
    \A k \in az.cred :
        (/\ az.check = "get_current_user"
         /\ \/ k \in {MalformedToken, ForgedToken}
            \/ \E e \in tokens :
                  e.tok = k /\ az.at >= ExpiryOf(e.issued_at) + TicksPerSecond)
            => /\ az.outcome = "401"
               /\ az.detail = "Invalid or expired token"
               /\ az.user = {}

\* the four cases in which the login of <<email, password>> has to fail
LoginMustFail(email, password) ==
    \/ ~\E u \in DOMAIN users : users[u].email = email
    \/ \E u \in DOMAIN users :
          /\ users[u].email = email
          /\ \/ ~users[u].is_active
             \/ users[u].password_hash = NULL
             \/ \E h \in users[u].password_hash : h.pw # password

\* C16: login answers the one 401 'Invalid credentials' exactly when the email
\* is unknown, the account is inactive, the password hash is null or the
\* password does not verify; a failed login issues no token and changes no
\* stored state.
C16_LoginFailsClosed ==
    [][az'.check = "login"
         => /\ (az'.outcome = "401" /\ az'.detail = "Invalid credentials")
                  <=> LoginMustFail(az'.input[1], az'.input[2])
            /\ az'.outcome \in {"401", "200"}
            /\ az'.outcome = "401"
                  => /\ az'.cred = {}
                     /\ UNCHANGED <<tokens, users, memberships, organizations,
                                    user_invites, projects, org_metadata>>]_vars

\* a login with the email of an active account and a wrong password has failed
C16_Witness ==
    /\ az.check = "login"
    /\ az.outcome = "401"
    /\ \E u \in DOMAIN users :
          /\ users[u].email = az.input[1]
          /\ users[u].is_active
          /\ \E h \in users[u].password_hash : h.pw # az.input[2]


\* C17: onboarding end to end.  A redemption that succeeds leaves the user
\* active with a hash of the password it was given and the invite with used_at
\* set; a login with the email and password of a redeemed user succeeds; and the
\* token a login returns decodes to the user id, the super-admin flag and
\* exactly the membership rows (org_id, role) the user has at the login.
C17_Onboarding ==
    [][/\ \A s \in Sessions :
            (/\ req[s].op = "setup_password" /\ req[s].pc = "commit"
             /\ req'[s].pc = "done" /\ req'[s].result = "ok")
                => /\ users'[req[s].uid].is_active
                   /\ \E h \in users'[req[s].uid].password_hash :
                         verify_password(req[s].pw, h)
                   /\ user_invites'[req[s].inv].used_at # NULL
       /\ (az'.check = "login" /\ az' # az)
            => /\ \A u \in DOMAIN users :
                    (/\ users[u].email = az'.input[1]
                     /\ users[u].is_active
                     /\ \E i \in DOMAIN user_invites :
                           /\ user_invites[i].user_id = u
                           /\ user_invites[i].used_at # NULL
                     /\ users[u].password_hash = Some(hash_password(az'.input[2])))
                        => az'.outcome = "200"
               /\ az'.outcome = "200"
                    => \E u \in DOMAIN users : \E k \in az'.cred :
                          LET decoded == decode_token(k, settings.JWT_SECRET, JWT_ALG, now)
                          IN  /\ users[u].email = az'.input[1]
                              /\ decoded.raised = "none"
                              /\ \A c \in decoded.payload :
                                    /\ c.uid = u
                                    /\ c.is_super_admin = users[u].is_super_admin
                                    /\ \A o \in BodyOrgIds, r \in Roles :
                                          [org_id |-> o, role |-> r] \in c.orgs
                                             <=> [user_id |-> u, org_id |-> o, role |-> r]
                                                    \in memberships]_vars

\* a user created by an invite and activated by a redemption has logged in and
\* holds a token with its membership
C17_Witness ==
    /\ az.check = "login"
    /\ az.outcome = "200"
    /\ \E k \in az.cred :
          /\ ~k.claims.is_super_admin
          /\ k.claims.orgs # {}
          /\ \E i \in DOMAIN user_invites :
                /\ user_invites[i].user_id = k.claims.uid
                /\ user_invites[i].used_at # NULL


\* C18 (as claimed): every invite an issuance (create_admin, create_user,
\* resend_invite) inserts has expires_at equal to the time of the issuance plus
\* INVITE_TTL_HOURS hours.
C18_InviteExpiryIsTTL ==
    [][\A s \in Sessions :
          (/\ req[s].op \in IssuanceOps
           /\ req[s].pc = "insert"
           /\ req'[s].pc # "insert")
              => req'[s].exp = now + settings.INVITE_TTL_HOURS * Hour]_vars


\* C19 (as claimed): the digest of a raw invite token is a function of the raw
\* token and the key, the dedicated invite secret when it is set and the
\* session-signing secret otherwise, and routes/auth.py _hash_token and
\* utils/invites_async.py hash_token give that same digest for the same raw
\* token and configuration.
C19_SameDigest ==
    az.check \in {"_hash_token", "hash_token"}
        => az.outcome =
              [key |-> IF settings.INVITE_TOKEN_HMAC_SECRET # ""
                       THEN settings.INVITE_TOKEN_HMAC_SECRET
                       ELSE settings.JWT_SECRET,
               msg |-> az.input[1]]


\* raw tokens _generate_token has returned so far
GeneratedTokens == 1..(seqs.token - 1)

\* C20: the raw invite token goes to the delivery task only.  Every stored row
\* has the columns of its table and no other; the token column of an invite row
\* holds the keyed digest of a generated raw token; what is handed to delivery
\* is a generated raw token; and the response of create_admin, create_user and
\* resend_invite is the user id with the invited flag, or the fixed message,
\* with neither the raw token nor the invite link.
C20_RawTokenOnlyToDelivery ==
    /\ \A i \in DOMAIN user_invites :
          /\ DOMAIN user_invites[i] = {"user_id", "token_hash", "purpose", "expires_at",
                                       "used_at", "created_by_user_id"}
          /\ \E t \in GeneratedTokens :
                user_invites[i].token_hash = [key |-> _invite_secret, msg |-> t]
    /\ \A u \in DOMAIN users :
          /\ DOMAIN users[u] = {"email", "password_hash", "is_super_admin", "is_active"}
          /\ users[u].email \in Emails
          /\ \A h \in users[u].password_hash : DOMAIN h = {"alg", "pw"}
    /\ \A m \in memberships : DOMAIN m = {"user_id", "org_id", "role"}
    /\ outbox \subseteq GeneratedTokens
    /\ \A s \in Sessions :
          (req[s].op \in IssuanceOps /\ req[s].pc = "done" /\ req[s].result = "ok")
              => /\ req[s].raw = 0
                 /\ req[s].body \in {[user_id |-> u, invited |-> TRUE] : u \in DOMAIN users}
                                       \cup {[message |-> "Invite re-sent"]}

\* create_admin or create_user has answered, the digest of its raw token is
\* stored and the raw token has been handed to delivery
C20_Witness ==
    \E s \in Sessions :
        /\ req[s].op \in {"create_admin", "create_user"}
        /\ req[s].pc = "done"
        /\ req[s].result = "ok"
        /\ \E t \in outbox : \E i \in DOMAIN user_invites :
              /\ user_invites[i].user_id = req[s].body.user_id
              /\ user_invites[i].token_hash = _hash_token(t)


\* C21: the delivery of an invite is queued only once the issuing transaction
\* has committed (the invite row of a queued token is stored), the issuing
\* request answers success with the delivery not yet attempted, and a delivery,
\* failed or not, changes no user, membership or invite row and no response.
C21_DeliveryAfterCommit ==
    [][/\ \A t \in outbox' :
             \E i \in DOMAIN user_invites' :
                 user_invites'[i].token_hash = _hash_token(t)
       /\ \A t \in outbox' \ outbox :
             /\ ~\E m \in hist'.mail : m.token = t
             /\ \E s \in Sessions :
                   /\ req[s].raw = t /\ req[s].pc = "commit"
                   /\ req'[s].pc = "done" /\ req'[s].result = "ok"
       /\ hist'.mail # hist.mail
             => /\ UNCHANGED <<users, memberships, organizations, user_invites, req>>
                /\ \A m \in hist'.mail : m.token \in outbox]_vars

\* the delivery of the invite of a committed issuance has failed and the invite
\* is still stored and pending
C21_Witness ==
    \E m \in hist.mail :
        /\ ~m.sent
        /\ \E i \in DOMAIN user_invites :
              /\ user_invites[i].token_hash = _hash_token(m.token)
              /\ InvState(i) = "PENDING"


\* C22: a create_admin, create_user, resend_invite or setup_password request
\* that fails before its commit persists none of its writes: the step that ends
\* it with an error adds no user, membership or invite row and leaves every
\* stored invite and user as it was, and nothing of a request that has not
\* committed is in the stored rows.
C22_FailureRollsBack ==
    [][\A s \in Sessions :
          /\ (/\ req[s].pc # "done" /\ req'[s].pc = "done"
              /\ req'[s].op \in IssuanceOps \cup {"setup_password"}
              /\ req'[s].result # "ok")
                => UNCHANGED <<users, memberships, organizations, user_invites>>
          /\ (req'[s].pc \notin {"idle", "done"} /\ req'[s].op \in IssuanceOps)
                => /\ req'[s].inv \notin DOMAIN user_invites'
                   /\ req'[s].op # "resend_invite" => req'[s].uid \notin DOMAIN users'
                   /\ \A i \in req'[s].rev : user_invites'[i] = user_invites[i]
          /\ (req'[s].pc \notin {"idle", "done"} /\ req'[s].op = "setup_password")
                => /\ user_invites'[req'[s].inv].used_at = NULL
                   /\ UNCHANGED users]_vars

\* a creation has failed after its INSERT INTO users (the user id is taken from
\* the sequence) and no row of that id is stored
C22_Witness ==
    \E s \in Sessions :
        /\ req[s].op \in {"create_admin", "create_user"}
        /\ req[s].pc = "done"
        /\ req[s].result = "500"
        /\ seqs.user_id - 1 \notin DOMAIN users
        /\ seqs.user_id > 2


\* C23 (as claimed): a create_admin or create_user whose email is that of a
\* stored user is answered with a Conflict (409), not with a crash, and changes
\* no stored row.
C23_DuplicateEmailIsConflict ==
    [][\A s \in Sessions :
          (/\ req[s].pc = "idle" /\ req'[s].pc = "done"
           /\ req'[s].op \in {"create_admin", "create_user"}
           /\ \E u \in DOMAIN users : users[u].email = req'[s].email)
              => /\ req'[s].result = "409"
                 /\ UNCHANGED <<users, memberships, organizations, user_invites>>]_vars


\* C24 (as claimed): require_access_to_project, save_chat_entry and
\* get_user_chat_history with a project filter decide the authorization before
\* they look for the project: a principal that is no super-admin and has no
\* membership of the project's organization is answered Forbidden whether or
\* not the project exists.
C24_ForbiddenBeforeNotFound ==
    \A user \in az.user :
        (/\ az.check \in {"require_access_to_project", "save_chat_entry",
                          "get_user_chat_history"}
         /\ az.target # 0
         /\ ~user.is_super_admin
         /\ ~\E m \in user.orgs : m.org_id = az.org)
            => az.outcome = "403"


\* C25: a user row is inserted inactive, is never deleted, never goes from
\* active to inactive, and goes from inactive to active (so at most once) only
\* in the commit of a successful setup_password whose invite has that user as
\* its target and is marked used by the same commit.
C25_ActivatedOnlyByRedemption ==
    [][/\ \A u \in DOMAIN users :
             /\ u \in DOMAIN users'
             /\ users[u].is_active => users'[u].is_active
             /\ (~users[u].is_active /\ users'[u].is_active)
                   => \E s \in Sessions :
                         /\ req[s].op = "setup_password" /\ req[s].pc = "commit"
                         /\ req'[s].pc = "done" /\ req'[s].result = "ok"
                         /\ user_invites[req[s].inv].user_id = u
                         /\ user_invites'[req[s].inv].used_at # NULL
       /\ \A u \in DOMAIN users' \ DOMAIN users : ~users'[u].is_active]_vars

\* the invited user has been activated by the redemption of its invite
C25_Witness ==
    \E i \in DOMAIN user_invites :
        /\ hist.redeemed[i] >= 1
        /\ user_invites[i].used_at # NULL
        /\ users[user_invites[i].user_id].is_active
        /\ ~users[user_invites[i].user_id].is_super_admin


\* C26: a setup_password request whose new password has fewer than 8
\* characters is rejected before any storage access: it ends at once as a
\* validation error, no invite is looked up or marked used, no user row is
\* changed, and every invite stays in the state it was in.
C26_ShortPasswordRejectedFirst ==
    [][\A s \in Sessions :
          (/\ req[s].pc = "idle" /\ req'[s].pc # "idle"
           /\ req'[s].op = "setup_password"
           /\ req'[s].pw \in ShortPasswords
           /\ Len(req'[s].pw) < 8)
              => /\ req'[s].pc = "done"
                 /\ req'[s].result = "422"
                 /\ req'[s].inv = 0
                 /\ req'[s].lk_inv = {} /\ req'[s].lk_usr = 0
                 /\ UNCHANGED <<users, memberships, organizations, user_invites, hist>>]_vars

\* a request with a short password has been rejected while an invite is
\* pending, and the invite is still pending
C26_Witness ==
    \E s \in Sessions :
        /\ req[s].op = "setup_password"
        /\ req[s].result = "422"
        /\ \E i \in DOMAIN user_invites : InvState(i) = "PENDING"


\* C27: a user created by create_admin or create_user is inactive with a null
\* password hash until an invite of that user is redeemed, and the password of
\* the creation body has no effect: the rows the creation stores and the
\* response it gives are functions of the rest of the request, whatever the
\* password, and nothing of the password stays with the finished request.
C27_CreationPasswordIgnored ==
    [][/\ \A s \in Sessions :
             (/\ req[s].op \in {"create_admin", "create_user"}
              /\ req[s].pc = "commit" /\ req'[s].pc = "done"
              /\ req'[s].result = "ok")
                 => /\ users' = (req[s].uid :>
                                   [email |-> req[s].email, password_hash |-> NULL,
                                    is_super_admin |-> FALSE, is_active |-> FALSE]) @@ users
                    /\ memberships' = memberships \cup
                          {[user_id |-> req[s].uid, org_id |-> req[s].org,
                            role |-> req[s].role]}
                    /\ user_invites'[req[s].inv] =
                          [user_id |-> req[s].uid,
                           token_hash |-> [key |-> _invite_secret, msg |-> req[s].raw],
                           purpose |-> "SET_PASSWORD", expires_at |-> req[s].exp,
                           used_at |-> NULL, created_by_user_id |-> req[s].cby]
                    /\ req'[s].body = [user_id |-> req[s].uid, invited |-> TRUE]
                    /\ req'[s].pw = "none"
       /\ \A s \in Sessions :
             (req'[s].op \in {"create_admin", "create_user"} /\ req'[s].pc = "done")
                 => req'[s].pw = "none"
       /\ \A u \in DOMAIN users' :
             (/\ ~users'[u].is_super_admin
              /\ ~\E i \in DOMAIN user_invites' :
                     user_invites'[i].user_id = u /\ user_invites'[i].used_at # NULL)
                 => ~users'[u].is_active /\ users'[u].password_hash = NULL]_vars

\* a creation that came with a password has answered and its user is stored
\* inactive without a password hash
C27_Witness ==
    \E s \in Sessions :
        /\ req[s].op \in {"create_admin", "create_user"}
        /\ req[s].pc = "done"
        /\ req[s].result = "ok"
        /\ ~users[req[s].body.user_id].is_active
        /\ users[req[s].body.user_id].password_hash = NULL


\* C28: organization rows are created only by requests whose principal is a
\* super-admin: a step that adds an organization is a create_org of a
\* super-admin, and a create_org or create_admin called by a principal that is
\* not a super-admin ends as 403 and inserts nothing (no row, no sequence value).
C28_OrganizationsOnlyBySuperAdmin ==
    [][/\ organizations' # organizations
            => \E s \in Sessions :
                  /\ req[s].pc = "idle"
                  /\ req'[s].op = "create_org" /\ req'[s].result = "ok"
                  /\ req'[s].caller \in DOMAIN users
                  /\ users[req'[s].caller].is_super_admin
                  /\ organizations' = organizations \cup {req'[s].body.org_id}
       /\ \A s \in Sessions :
             (/\ req[s].pc = "idle"
              /\ req'[s].op \in {"create_org", "create_admin"}
              /\ req'[s].caller \in DOMAIN users
              /\ ~users[req'[s].caller].is_super_admin)
                 => /\ req'[s].pc = "done" /\ req'[s].result = "403"
                    /\ UNCHANGED <<dbVars, org_metadata, seqs>>]_vars

\* both cases have happened: a super-admin has created an organization, and the
\* create_org of an active principal that is not a super-admin was forbidden
C28_Witness ==
    /\ organizations # {1}
    /\ \E s \in Sessions :
          /\ req[s].op \in {"create_org", "create_admin"}
          /\ req[s].result = "403"
          /\ req[s].caller \in DOMAIN users
          /\ ~users[req[s].caller].is_super_admin


\* C29: list_organizations never denies an authenticated principal: its answer
\* is always a list; for a principal that is not a super-admin the list is
\* exactly the existing organizations whose id is among the memberships of the
\* claims (empty when there are none), for a super-admin it is every
\* organization; no table is changed.
C29_ListOrganizations ==
    [][az'.check = "list_organizations"
         => \A user \in az'.user :
               /\ az'.outcome = "allow"
               /\ az'.touched =
                     IF user.is_super_admin THEN organizations
                     ELSE {o \in organizations :
                              \E m \in user.orgs : m.org_id = o}
               /\ (~user.is_super_admin /\ user.orgs = {}) => az'.touched = {}
               /\ UNCHANGED orgDb]_vars

\* a principal that is not a super-admin and whose claims name organizations 1
\* and 2 has listed the organizations while only organization 1 exists
C29_Witness ==
    \E user \in az.user :
        /\ az.check = "list_organizations"
        /\ ~user.is_super_admin
        /\ {m.org_id : m \in user.orgs} = {1, 2}
        /\ organizations = {1}
        /\ az.touched = {1}


\* C30: revocation of open invites is idempotent: applied to a (user, purpose)
\* that has no PENDING invite it changes no row; applied again to the same
\* (user, purpose) right after an application, whatever time has passed, it
\* changes no row, so the invite states are those the first one left; and after
\* any application no invite of that (user, purpose) is PENDING.
C30_RevocationIdempotent ==
    [][(az'.check = "revoke_open_invites" /\ now' = now)
         => LET user_id == az'.input[1]
                purpose == az'.input[2]
            IN  /\ PendingOf(user_id, purpose) = {} => user_invites' = user_invites
                /\ (az.check = "revoke_open_invites" /\ az.input = az'.input)
                      => user_invites' = user_invites
                /\ \A i \in DOMAIN user_invites' :
                      (/\ user_invites'[i].user_id = user_id
                       /\ user_invites'[i].purpose = purpose
                       /\ user_invites'[i].used_at = NULL)
                          => user_invites'[i].expires_at <= now']_vars

\* the revocation has been applied twice in succession to a (user, purpose) one
\* of whose invites the first application has revoked at time 1
C30_Witness ==
    /\ az.check = "revoke_open_invites"
    /\ az.detail = "repeated"
    /\ az.touched = {}
    /\ \E i \in DOMAIN user_invites :
          /\ <<user_invites[i].user_id, user_invites[i].purpose>> = az.input
          /\ user_invites[i].used_at = NULL
          /\ user_invites[i].expires_at = 1


\* C31: verify_password returns false and raises nothing for every digest that
\* is malformed or of a format that is neither argon2 nor bcrypt, whatever the
\* password; and a login on an active account with such a digest answers the
\* 401 'Invalid credentials', issues no token and changes no stored state.
C31_ForeignDigestFailsClosed ==
    [][/\ \A f \in DigestFormats \ {"argon2", "bcrypt"}, stored, plain \in LoginPasswords :
             /\ ~verify_password(plain, [alg |-> f, pw |-> stored])
             /\ verify_password_raised(plain, [alg |-> f, pw |-> stored]) = "none"
       /\ (/\ az'.check = "login"
           /\ \E u \in DOMAIN users :
                 /\ users[u].email = az'.input[1]
                 /\ users[u].is_active
                 /\ \E h \in users[u].password_hash : h.alg \notin {"argon2", "bcrypt"})
             => /\ az'.outcome = "401"
                /\ az'.detail = "Invalid credentials"
                /\ az'.cred = {}
                /\ UNCHANGED <<tokens, users, memberships, user_invites>>]_vars

\* a login with the very password a malformed bcrypt digest was made of has
\* failed with 401
C31_Witness ==
    /\ az.check = "login"
    /\ az.outcome = "401"
    /\ \E u \in DOMAIN users :
          /\ users[u].email = az.input[1]
          /\ users[u].is_active
          /\ \E h \in users[u].password_hash :
                h.alg = "bcrypt-malformed" /\ h.pw = az.input[2]


\* C32: a create_user of a principal that is not a super-admin and has no ADMIN
\* membership at the org_id of the request ends as 403 with no user, membership
\* or invite row inserted and no sequence value taken; one with that membership
\* is not forbidden; and a create_user that succeeds was asked by a super-admin
\* or an ADMIN of the org_id of the request and adds exactly the membership of
\* the new user at that org_id with role USER.
C32_CreateUserNeedsAdminOfOrg ==
    [][/\ \A s \in Sessions :
             (/\ req[s].pc = "idle"
              /\ req'[s].op = "create_user"
              /\ req'[s].caller \in DOMAIN users
              /\ ~users[req'[s].caller].is_super_admin)
                 => LET admin == \E m \in memberships :
                                    /\ m.user_id = req'[s].caller
                                    /\ m.org_id = req'[s].org
                                    /\ m.role = "ADMIN"
                    IN  /\ ~admin => /\ req'[s].pc = "done" /\ req'[s].result = "403"
                                     /\ UNCHANGED <<dbVars, seqs>>
                        /\ admin => req'[s].result # "403"
       /\ \A s \in Sessions :
             (/\ req[s].op = "create_user" /\ req[s].pc = "commit"
              /\ req'[s].pc = "done" /\ req'[s].result = "ok")
                 => /\ \/ users[req[s].caller].is_super_admin
                       \/ \E m \in memberships :
                             /\ m.user_id = req[s].caller
                             /\ m.org_id = req[s].org
                             /\ m.role = "ADMIN"
                    /\ memberships' = memberships \cup
                          {[user_id |-> req[s].uid, org_id |-> req[s].org, role |-> "USER"]}
                    /\ req[s].uid \notin DOMAIN users
                    /\ DOMAIN users' = DOMAIN users \cup {req[s].uid}]_vars

\* user 2, an ADMIN of organization 2 and no super-admin, has created user 3,
\* who is a USER of organization 2 and of nothing else
C32_Witness ==
    /\ ~users[2].is_super_admin
    /\ [user_id |-> 2, org_id |-> 2, role |-> "ADMIN"] \in memberships
    /\ 3 \in DOMAIN users
    /\ {m \in memberships : m.user_id = 3} = {[user_id |-> 3, org_id |-> 2, role |-> "USER"]}
    /\ \E i \in DOMAIN user_invites :
          user_invites[i].user_id = 3 /\ user_invites[i].created_by_user_id = Some(2)


\* setup_password of session s, called now with raw token t and a password
\* that passes the validation, gets past the check of the invite
SetupAccepted(s, t) ==
    /\ setup_password(s)
    /\ req'[s].pc = "update_user"
    /\ req'[s].raw = t

\* C33: verify_setup_token changes no stored state (every row, sequence and
\* pending delivery is as before, so a PENDING invite is PENDING after it), and
\* it answers that the token is valid exactly when a setup_password that
\* presents the same token in the same state gets past its check of the invite.
C33_VerifyAgreesWithSetup ==
    [][\A s \in Sessions, t \in {0} \cup outbox :
          (/\ req[s].pc = "idle"
           /\ req'[s].op = "verify_setup_token"
           /\ req'[s].raw = t)
              => /\ UNCHANGED <<dbVars, seqs, outbox, hist, now>>
                 /\ req'[s].result \in {"ok", "400"}
                 /\ req'[s].result = "ok" <=> ENABLED SetupAccepted(s, t)]_vars

\* a token has been verified as valid while its invite is PENDING after the
\* verification
C33_Witness ==
    \E s \in Sessions :
        /\ req[s].op = "verify_setup_token"
        /\ req[s].result = "ok"
        /\ \E i \in DOMAIN user_invites :
              /\ user_invites[i].token_hash = _hash_token(req[s].raw)
              /\ InvState(i) = "PENDING"


\* C34: revoking the open invites of (user U, purpose P) sets expires_at to the
\* time of the call on exactly the invites of U and P that are PENDING and
\* changes nothing else: no row is added or removed, every other invite row
\* (another user, another purpose, used, already expired) is as it was, and so
\* are all user and membership rows.
C34_RevocationFrame ==
    [][(az'.check = "revoke_open_invites" /\ now' = now)
         => LET user_id == az'.input[1]
                purpose == az'.input[2]
            IN  /\ DOMAIN user_invites' = DOMAIN user_invites
                /\ \A i \in DOMAIN user_invites :
                      IF /\ user_invites[i].user_id = user_id
                         /\ user_invites[i].purpose = purpose
                         /\ InvState(i) = "PENDING"
                      THEN user_invites'[i] = [user_invites[i] EXCEPT !.expires_at = now]
                      ELSE user_invites'[i] = user_invites[i]
                /\ UNCHANGED <<users, memberships, organizations>>]_vars

\* a revocation for user 2 and SET_PASSWORD has revoked invite 1 at time 1 and
\* has left alone invite 2, a PENDING invite of the same user for the other
\* purpose
C34_Witness ==
    /\ az.check = "revoke_open_invites"
    /\ az.input = <<2, "SET_PASSWORD">>
    /\ az.touched = {1}
    /\ now = 1
    /\ 2 \in DOMAIN user_invites
    /\ user_invites[1].expires_at = 1
    /\ user_invites[2].user_id = 2
    /\ user_invites[2].purpose = "RESET_PASSWORD"
    /\ InvState(2) = "PENDING"


\* C35: the implementations of the access rule agree for the principal of the
\* run and every organization: require_org_role({ADMIN}), can_admin_project and
\* the inline check of create_user allow the same calls, and
\* require_org_role({ADMIN, USER}), can_access_project and the membership test
\* of require_access_to_project (for every project of the organization) allow
\* the same calls.
C35_AccessRulesAgree ==
    \A user \in az.user, org_id \in BodyOrgIds :
        /\ (require_org_role(user, org_id, {"ADMIN"}) = "allow")
              = can_admin_project(user, org_id)
        /\ can_admin_project(user, org_id) = create_user_allowed(user, org_id)
        /\ (require_org_role(user, org_id, {"ADMIN", "USER"}) = "allow")
              = can_access_project(user, org_id)
        /\ \A project_id \in DOMAIN projects :
              projects[project_id] = org_id
                 => (require_access_to_project(user, project_id) = "allow")
                       = can_access_project(user, org_id)

\* require_org_role({ADMIN}) has refused a principal that is a USER of the
\* organization, which has a project the principal may access
C35_Witness ==
    \E user \in az.user :
        /\ az.check = "require_org_role"
        /\ az.level = "ADMIN"
        /\ az.outcome = "403"
        /\ [org_id |-> az.org, role |-> "USER"] \in user.orgs
        /\ ~can_admin_project(user, az.org)
        /\ \E project_id \in DOMAIN projects :
              /\ projects[project_id] = az.org
              /\ require_access_to_project(user, project_id) = "allow"


\* C36: no step creates or promotes a super-admin: a user row that a step adds
\* has is_super_admin = FALSE, no step changes the flag of a row, and so the
\* super-admins are the seeded one at all times.
C36_NoNewSuperAdmin ==
    [][/\ \A u \in DOMAIN users' \ DOMAIN users : ~users'[u].is_super_admin
       /\ \A u \in DOMAIN users :
             u \in DOMAIN users'
                /\ users'[u].is_super_admin = users[u].is_super_admin
       /\ {u \in DOMAIN users' : users'[u].is_super_admin} = {1}]_vars

\* create_admin has created a user, who has redeemed the invite, is active and
\* an ADMIN of an organization, and is no super-admin
C36_Witness ==
    \E u \in DOMAIN users :
        /\ u # 1
        /\ users[u].is_active
        /\ ~users[u].is_super_admin
        /\ \E m \in memberships : m.user_id = u /\ m.role = "ADMIN"


\* C37: a resend_invite of a super-admin for a user id that has no row ends at
\* once as 404 'User not found' and changes nothing: no invite is revoked or
\* inserted, no token or id is taken and no delivery is scheduled; and
\* resend_invite answers 404 for no other user id.
C37_ResendUnknownUser ==
    [][\A s \in Sessions :
          (req[s].pc = "idle" /\ req'[s].op = "resend_invite")
             => /\ (/\ req'[s].caller \in DOMAIN users
                    /\ users[req'[s].caller].is_super_admin
                    /\ req'[s].uid \notin DOMAIN users)
                      => /\ req'[s].pc = "done"
                         /\ req'[s].result = "404"
                         /\ req'[s].body = [detail |-> "User not found"]
                         /\ UNCHANGED <<dbVars, seqs, outbox, hist>>
                         /\ req'[s].rev = {} /\ req'[s].inv = 0 /\ req'[s].raw = 0
                /\ req'[s].result = "404" => req'[s].uid \notin DOMAIN users]_vars

\* a resend_invite for user id 2 has been answered 404 while there is no user 2
C37_Witness ==
    \E s \in Sessions :
        /\ req[s].op = "resend_invite"
        /\ req[s].result = "404"
        /\ req[s].uid = 2
        /\ 2 \notin DOMAIN users

\* C38: the answer cache: cache_get_answer never returns an item that was stored
\* more than TTL_SECONDS before the call; a put and a get leave no item in the
\* cache that was older than TTL_SECONDS when they were called, and keep every
\* other item they found; and a get of an answer_id whose item is at most
\* TTL_SECONDS old returns exactly the answer that the put which returned that
\* id was given.
C38_AnswerCache ==
    LET c == cache_hist.call
        puts == cache_hist.puts
        Expired(item) == c.at - item.ts > CacheTTL
    IN  /\ c.op # "none" =>
              /\ \A k \in DOMAIN c.before :
                    IF Expired(c.before[k])
                    THEN k \notin DOMAIN answer_cache
                    ELSE k \in DOMAIN answer_cache /\ answer_cache[k] = c.before[k]
              /\ \A k \in DOMAIN answer_cache : answer_cache[k] = puts[k]
        /\ c.op = "cache_get_answer" =>
              /\ c.returned # NULL =>
                    /\ c.answer_id \in DOMAIN puts
                    /\ ~Expired(puts[c.answer_id])
              /\ (c.answer_id \in DOMAIN puts /\ ~Expired(puts[c.answer_id]))
                    => c.returned = Some(puts[c.answer_id].answer)

\* a get that returns the answer of an item exactly TTL_SECONDS old and drops an
\* item one tick older
C38_Witness ==
    LET c == cache_hist.call
    IN  /\ c.op = "cache_get_answer"
        /\ c.returned # NULL
        /\ c.at - cache_hist.puts[c.answer_id].ts = CacheTTL
        /\ \E k \in DOMAIN c.before : /\ c.at - c.before[k].ts > CacheTTL
                                      /\ k \notin DOMAIN answer_cache

====
